---- MODULE Spec2Model ----
(***************************************************************************)
(* Model of the person-search pipeline of ntphongit/eventfacedetection:    *)
(* FaceService.search_person_folder (src/src/services/face_service.py)     *)
(* with the helpers it calls: _validate_folder_path,                       *)
(* _get_images_from_folder and FaceService.search.                         *)
(*                                                                         *)
(* Paths are sequences of components below the filesystem root.            *)
(* Distances and confidences are hundredths (0.20 is 20, 0.80 is 80).      *)
(***************************************************************************)
EXTENDS Integers, Sequences, FiniteSets, TLC

VARIABLES
    pc,               \* position of the search_person_folder call
    allowed_dirs,     \* cfg["storage"]["allowed_directories"]
    folder_path,      \* argument folder_path
    limit_arg,        \* argument limit as passed
    limit,            \* local limit after the clamp
    max_refs,         \* argument max_refs
    validated_folder, \* local validated_folder (resolved path)
    person_name,      \* local person_name
    images,           \* local images (list of directory entries)
    idx,              \* number of reference images the loop has finished
    all_matches,      \* local all_matches: dict kept in insertion order
    errors,           \* local errors
    result,           \* the returned PersonSearchResult, or None
    exc,              \* the exception raised to the caller, or None
    enumerated,       \* history: folder.iterdir() was called
    reads,            \* history: names of the files read_bytes was called on
    search_calls,     \* history: the limit of every self.search call
    outcomes,         \* history: what each reference's iteration ended in
    returned,         \* history: every match any self.search call returned
    first_seen,       \* history: identities in order of first appearance
    replaced          \* history: identities whose entry was replaced while a
                      \* later-inserted identity was already in all_matches

\* _get_images_from_folder called on its own
VARIABLES
    gi_pc,            \* position of the call: "call" or "returned"
    gi_listing,       \* what folder.iterdir() yields, in its order
    gi_max_refs,      \* argument max_refs
    gi_images         \* the returned list

\* set_photos_base_dir, resolve_image_path and copy_matches_to_output
VARIABLES
    cm_pc,            \* position of copy_matches_to_output
    photos_base_dir,  \* self._photos_base_dir
    output_root,      \* cfg["person_search"]["output_root"]
    cm_result,        \* argument result
    cm_idx,           \* number of matches the loop has finished
    out_dir,          \* the person's output directory on disk
    copied,           \* local copied
    skipped,          \* local skipped
    summary,          \* the returned OutputSummary, or None
    initial_dir,      \* history: the directory before the first run
    writes,           \* history: every file shutil.copy2 wrote, in order
    summaries,        \* history: the OutputSummary of every finished run
    attempts          \* history: every match the loop handled: its identity,
                      \* its resolved source path and what became of it

\* FaceService.search called on its own
VARIABLES
    fs_pc,            \* position of the search call
    fs_image,         \* argument query_image: decodable or not, faces in it
    fs_rows,          \* the rows DeepFace.search answers for this image
    fs_limit,         \* argument limit
    fs_temp_path,     \* local temp_path, or None
    temp_files,       \* the files in ./tmp/uploads
    fs_matches,       \* the returned list
    fs_exc,           \* the exception raised to the caller, or NoError
    fs_calls,         \* history: number of search calls started
    backend_calls     \* history: img of every DeepFace.search call of this call

\* load_config and get_config called from several threads
VARIABLES
    config,           \* module global _config, or NoResult for None
    config_lock,      \* holder of _config_lock, 0 when free
    cfg_pc,           \* position of each thread
    cfg_fn,           \* the function each thread called
    cfg_path,         \* argument path of each thread's load_config
    cfg_calls,        \* history: number of calls the threads have started
    file_reads,       \* history: every open(path) with its outcome
    cfg_returns       \* history: what the finished calls returned

\* two copy_matches_to_output calls on the same person directory
VARIABLES
    rc_pc,            \* position of each call
    rc_result,        \* argument result of both calls
    rc_idx,           \* number of matches each call's loop has finished
    rc_dest,          \* local dest_path of each call, or None
    rc_dir,           \* the person's output directory on disk
    rc_copied,        \* local copied of each call
    rc_skipped,       \* local skipped of each call
    rc_writes         \* history: every file shutil.copy2 wrote, in order

\* the loop of search_person_folder over given per-reference outcomes
VARIABLES
    mg_pc,            \* position: "idle", "loop" or "done"
    mg_refs,          \* what self.search does for each reference, in order
    mg_idx,           \* number of references the loop has finished
    mg_all_matches,   \* local all_matches
    mg_errors,        \* local errors
    mg_result         \* the returned PersonSearchResult, or NoResult

\* the CLI command search
VARIABLES
    cli_pc,           \* position of the command
    cli_args,         \* image_path (what it names), limit, db_path, flags
    cli_base_dir,     \* service._photos_base_dir
    cli_result,       \* result of search_person_folder, or NoResult
    cli_calls,        \* history: the FaceService methods called, in order
    cli_mkdirs,       \* history: times the person's output directory was made
    cli_err,          \* lines echoed to stderr
    cli_exc           \* exception that left the command, or NoError

search_vars == <<pc, allowed_dirs, folder_path, limit_arg, limit, max_refs,
                 validated_folder, person_name, images, idx, all_matches, errors,
                 result, exc, enumerated, reads, search_calls, outcomes, returned,
                 first_seen, replaced>>

collect_vars == <<gi_pc, gi_listing, gi_max_refs, gi_images>>

copy_vars == <<cm_pc, photos_base_dir, output_root, cm_result, cm_idx, out_dir,
               copied, skipped, summary, initial_dir, writes, summaries,
               attempts>>

face_vars == <<fs_pc, fs_image, fs_rows, fs_limit, fs_temp_path, temp_files,
               fs_matches, fs_exc, fs_calls, backend_calls>>

config_vars == <<config, config_lock, cfg_pc, cfg_fn, cfg_path, cfg_calls,
                 file_reads, cfg_returns>>

race_vars == <<rc_pc, rc_result, rc_idx, rc_dest, rc_dir, rc_copied, rc_skipped,
               rc_writes>>

merge_vars == <<mg_pc, mg_refs, mg_idx, mg_all_matches, mg_errors, mg_result>>

cli_vars == <<cli_pc, cli_args, cli_base_dir, cli_result, cli_calls, cli_mkdirs,
              cli_err, cli_exc>>

\* the variables of the calls studied on their own further down
rest_vars == <<face_vars, config_vars, race_vars, merge_vars, cli_vars>>

vars == <<search_vars, collect_vars, copy_vars, rest_vars>>

(***************************************************************************)
(* Bounds of the model                                                     *)
(***************************************************************************)
MaxEntries == 3     \* directory entries in the reference folder
MaxRows == 2        \* rows the embedding backend returns for one query
MaxFaces == 2       \* faces the detector finds in one reference image
MaxMatches == 3     \* matches of the result handed to copy_matches_to_output
MaxRuns == 2        \* runs of copy_matches_to_output with the same result
MaxThreads == 2     \* threads calling load_config / get_config
MaxConfigCalls == 3 \* calls of load_config / get_config, all threads together

\* Python's None for a string, a path, an integer, a result and an exception
None == "None"
NoPath == <<"None">>
NoInt == -1
NoResult == [none |-> TRUE]
NoError == [type |-> "None", msg |-> ""]

(***************************************************************************)
(* Generic sequence helpers                                                *)
(***************************************************************************)
Min(a, b) == IF a < b THEN a ELSE b
Max(a, b) == IF a > b THEN a ELSE b

Range(s) == {s[i] : i \in 1..Len(s)}

\* s[:n] of Python for n >= 0
Take(s, n) == SubSeq(s, 1, Min(n, Len(s)))

SeqsUpTo(S, n) == UNION {[1..k -> S] : k \in 0..n}

InjSeqsUpTo(S, n) ==
    {s \in SeqsUpTo(S, n) : \A i, j \in 1..Len(s) : i # j => s[i] # s[j]}

IsPrefix(p, q) == Len(p) <= Len(q) /\ SubSeq(q, 1, Len(p)) = p

(***************************************************************************)
(* Filesystem paths: Path.resolve() and PurePath.relative_to()             *)
(***************************************************************************)
\* The one symbolic link of the modelled filesystem: /data/link -> /etc
SymlinkAt == <<"data", "link">>
SymlinkTarget == <<"etc">>

\* Path(p).resolve(): ".." removes the last component (the root is its own
\* parent) and a prefix that is a symbolic link is replaced by its target.
RECURSIVE ResolveFrom(_, _)
ResolveFrom(acc, rest) ==
    IF rest = <<>> THEN acc
    ELSE LET c == Head(rest)
             stepped == IF c = ".."
                          THEN (IF acc = <<>> THEN <<>>
                                ELSE SubSeq(acc, 1, Len(acc) - 1))
                          ELSE Append(acc, c)
             followed == IF stepped = SymlinkAt THEN SymlinkTarget
                         ELSE stepped
         IN ResolveFrom(followed, Tail(rest))

Resolve(p) == ResolveFrom(<<>>, p)

\* folder.relative_to(allowed_path) returns (TRUE) or raises ValueError
RelativeTo(folder, allowed_path) == IsPrefix(allowed_path, folder)

\* FaceService._validate_folder_path: the resolved folder, or NoPath when the
\* ValueError "Folder path not under allowed directories" is raised.
RECURSIVE ValidateFrom(_, _, _)
ValidateFrom(folder, allowed, i) ==
    IF i > Len(allowed) THEN NoPath
    ELSE IF RelativeTo(folder, Resolve(allowed[i])) THEN folder
         ELSE ValidateFrom(folder, allowed, i + 1)

\* variant of validate_folder_path: the folder is compared without resolve()
validate_folder_path_unresolved(path, allowed) == ValidateFrom(path, allowed, 1)

validate_folder_path(path, allowed) == ValidateFrom(Resolve(path), allowed, 1)

\* Folder arguments the callers pass
FolderPaths ==
    { <<"data", "people", "Nguyen_Thanh_Phong">>,
      <<"data", "people", "..", "..", "etc">>,
      <<"data", "link">> }

\* Values of cfg["storage"]["allowed_directories"]
AllowedConfigs ==
    { <<>>,
      << <<"data", "people">> >>,
      << <<"some", "other", "path">>, <<"data">> >>,
      << <<"data", "link">> >> }

\* str.replace("_", " ") on the final component of a path. A name is kept
\* as the sequence of its pieces, the underscore being a piece of its own.
NamePieces(name) ==
    CASE name = "Nguyen_Thanh_Phong" -> <<"Nguyen", "_", "Thanh", "_", "Phong">>
      [] OTHER -> <<name>>

RECURSIVE JoinPieces(_)
JoinPieces(ps) == IF ps = <<>> THEN "" ELSE Head(ps) \o JoinPieces(Tail(ps))

\* variant of ReplaceUnderscore: str.replace("_", " ", 1), first underscore only
ReplaceFirstUnderscore(name) ==
    JoinPieces([i \in 1..Len(NamePieces(name)) |->
                  IF NamePieces(name)[i] = "_" /\ (\A k \in 1..(i - 1) : NamePieces(name)[k] # "_")
                    THEN " " ELSE NamePieces(name)[i]])

ReplaceUnderscore(name) ==
    JoinPieces([i \in 1..Len(NamePieces(name)) |->
                  IF NamePieces(name)[i] = "_" THEN " " ELSE NamePieces(name)[i]])

\* Path.name: the final component ("" for the root)
PathName(p) == IF p = <<>> THEN "" ELSE p[Len(p)]

(***************************************************************************)
(* FaceService._get_images_from_folder                                     *)
(***************************************************************************)
\* cfg["files"]["allowed_formats"]
allowed_formats == <<"jpeg", "jpg", "png", "heic">>

\* str.lower() on the extensions and format names of the model
Lower(s) ==
    CASE s = ".JPG" -> ".jpg"
      [] s = ".PNG" -> ".png"
      [] s = "JPG" -> "jpg"
      [] OTHER -> s

\* extensions = {f".{fmt.lower()}" for fmt in formats}
Extensions(formats) == {"." \o Lower(formats[i]) : i \in 1..Len(formats)}

\* What folder.iterdir() can yield: name, Path.suffix, is_file(), is_symlink()
DirEntries ==
    { [name |-> "ref1.jpg",  suffix |-> ".jpg", is_file |-> TRUE,  is_symlink |-> FALSE],
      [name |-> "REF2.JPG",  suffix |-> ".JPG", is_file |-> TRUE,  is_symlink |-> FALSE],
      [name |-> "ref3.png",  suffix |-> ".png", is_file |-> TRUE,  is_symlink |-> FALSE],
      [name |-> "notes.txt", suffix |-> ".txt", is_file |-> TRUE,  is_symlink |-> FALSE],
      [name |-> "album.jpg", suffix |-> ".jpg", is_file |-> FALSE, is_symlink |-> FALSE],
      [name |-> "link.png",  suffix |-> ".png", is_file |-> TRUE,  is_symlink |-> TRUE] }

\* A directory listing: distinct entries in the order the filesystem yields
Listings == InjSeqsUpTo(DirEntries, MaxEntries)

Qualifies(f, extensions) ==
    f.is_file /\ ~f.is_symlink /\ Lower(f.suffix) \in extensions

\* the files inside the one subdirectory of DirEntries, album.jpg
SubdirEntries ==
    { [name |-> "inner.jpg", suffix |-> ".jpg", is_file |-> TRUE, is_symlink |-> FALSE] }

\* variant of FilterImages: the folder is walked with rglob("*"), which also
\* yields the files inside a subdirectory
RECURSIVE FilterImagesRecursive(_, _)
FilterImagesRecursive(listing, extensions) ==
    IF listing = <<>> THEN <<>>
    ELSE LET f == Head(listing)
             inner == IF f.name = "album.jpg" /\ ~f.is_file
                        THEN <<CHOOSE g \in SubdirEntries : TRUE>> ELSE <<>>
         IN (IF Qualifies(f, extensions) THEN <<f>> ELSE <<>>)
            \o inner \o FilterImagesRecursive(Tail(listing), extensions)

\* [f for f in folder.iterdir() if ...]
RECURSIVE FilterImages(_, _)
FilterImages(listing, extensions) ==
    IF listing = <<>> THEN <<>>
    ELSE IF Qualifies(Head(listing), extensions)
           THEN <<Head(listing)>> \o FilterImages(Tail(listing), extensions)
           ELSE FilterImages(Tail(listing), extensions)

get_images_from_folder(listing, maxRefs) ==
    Take(FilterImages(listing, Extensions(allowed_formats)), maxRefs)

(***************************************************************************)
(* FaceService.search                                                      *)
(***************************************************************************)
\* cfg["deepface"]["threshold"], 0.40
Threshold == 40

\* img_name values stored in the embedding database
Identities == {"event/photo1.jpg", "event/photo2.jpg"}

\* distances the backend reports
Distances == {20, 30, 45}

\* rows of the data frame DeepFace.search returns
BackendRows == [img_name : Identities, distance : Distances]

\* SearchMatch(image_path=..., distance=dist, confidence=max(0, 1 - dist))
SearchMatch(row) ==
    [image_path |-> row.img_name, distance |-> row.distance,
     confidence |-> Max(0, 100 - row.distance)]

\* the loop over the rows: keep those with dist <= self.threshold
RECURSIVE ThresholdMatches(_)
ThresholdMatches(rows) ==
    IF rows = <<>> THEN <<>>
    ELSE IF Head(rows).distance <= Threshold
           THEN <<SearchMatch(Head(rows))>> \o ThresholdMatches(Tail(rows))
           ELSE ThresholdMatches(Tail(rows))

\* sorted(matches, key=lambda x: x.distance): stable, ascending
RECURSIVE InsertByDistance(_, _)
InsertByDistance(sorted, m) ==
    IF sorted = <<>> THEN <<m>>
    ELSE IF Head(sorted).distance <= m.distance
           THEN <<Head(sorted)>> \o InsertByDistance(Tail(sorted), m)
           ELSE <<m>> \o sorted

\* variant of SortByDistance: the matches in the order of the rows
SortByDistanceMissing(ms) == ms

RECURSIVE SortByDistance(_)
SortByDistance(ms) ==
    IF ms = <<>> THEN <<>>
    ELSE InsertByDistance(SortByDistance(SubSeq(ms, 1, Len(ms) - 1)), ms[Len(ms)])

NoFaceDetectedError ==
    [type |-> "NoFaceDetectedError",
     msg |-> "No face detected. Please upload image with clear face."]

MultipleFacesError(count) ==
    [type |-> "MultipleFacesError", count |-> count,
     msg |-> "Multiple faces (" \o ToString(count) \o "). Upload image with one face."]

\* img_path.read_bytes() failing
ReadError == [type |-> "PermissionError", msg |-> "[Errno 13] Permission denied"]

\* DeepFace.search failing on the database connection
BackendError == [type |-> "OperationalError", msg |-> "connection refused"]

\* variant of validate_single_face: any image with a face passes
validate_some_face(faces) ==
    IF faces = 0 THEN NoFaceDetectedError ELSE NoError

\* validate_single_face: the exception it raises, or NoError
validate_single_face(faces) ==
    IF faces = 0 THEN NoFaceDetectedError
    ELSE IF faces > 1 THEN MultipleFacesError(faces)
    ELSE NoError

\* FaceService.search on an image with `faces` detected faces for which the
\* backend answers `rows`: the exception raised or the matches returned
search(faces, rows, lim) ==
    IF validate_single_face(faces) # NoError
      THEN [exc |-> validate_single_face(faces), matches |-> <<>>]
      ELSE [exc |-> NoError,
            matches |-> Take(SortByDistance(ThresholdMatches(rows)), lim)]

(***************************************************************************)
(* FaceService.search_person_folder                                        *)
(***************************************************************************)
\* limit / max_refs arguments of the callers
LimitArgs == {0, 50, 2000}
MaxRefsArgs == {1, 50}

\* variant of ClampLimit: min(1000, limit), the lower bound forgotten
ClampLimitUpperOnly(lim) == Min(1000, lim)

\* limit = max(1, min(1000, limit))
ClampLimit(lim) == Max(1, Min(1000, lim))

\* position of image_path among the keys of all_matches, 0 when absent
KeyIndex(acc, image_path) ==
    IF \E i \in 1..Len(acc) : acc[i].image_path = image_path
      THEN CHOOSE i \in 1..Len(acc) : acc[i].image_path = image_path
      ELSE 0

\* variant of MergeOne: the candidate seen last always replaces the entry
MergeOneLastWins(acc, m) ==
    IF KeyIndex(acc, m.image_path) = 0 THEN Append(acc, m)
    ELSE [acc EXCEPT ![KeyIndex(acc, m.image_path)] = m]

\* body of `for m in matches`: a new key is appended to the dict, an
\* assignment to an existing key keeps the key's position
MergeOne(acc, m) ==
    IF KeyIndex(acc, m.image_path) = 0 THEN Append(acc, m)
    ELSE IF m.confidence > acc[KeyIndex(acc, m.image_path)].confidence
           THEN [acc EXCEPT ![KeyIndex(acc, m.image_path)] = m]
           ELSE acc

RECURSIVE MergeMatches(_, _)
MergeMatches(acc, matches) ==
    IF matches = <<>> THEN acc
    ELSE MergeMatches(MergeOne(acc, Head(matches)), Tail(matches))

\* variant of ErrorEntry: one generic except clause for every exception
ErrorEntryGeneric(name, e) == name \o ": " \o e.msg

\* the two except clauses: the entry appended to errors for exception e
ErrorEntry(name, e) ==
    IF e.type = "NoFaceDetectedError" THEN "No face: " \o name
    ELSE name \o ": " \o e.msg

\* variant of InsertByConfidence: descending, but a match is placed before
\* the matches of equal confidence (an ascending sort that is then reversed)
RECURSIVE InsertByConfidenceTiesReversed(_, _)
InsertByConfidenceTiesReversed(sorted, m) ==
    IF sorted = <<>> THEN <<m>>
    ELSE IF Head(sorted).confidence > m.confidence
           THEN <<Head(sorted)>> \o InsertByConfidenceTiesReversed(Tail(sorted), m)
           ELSE <<m>> \o sorted

\* sorted(all_matches.values(), key=lambda x: x.confidence, reverse=True):
\* descending, elements of equal confidence keep their order
RECURSIVE InsertByConfidence(_, _)
InsertByConfidence(sorted, m) ==
    IF sorted = <<>> THEN <<m>>
    ELSE IF Head(sorted).confidence >= m.confidence
           THEN <<Head(sorted)>> \o InsertByConfidence(Tail(sorted), m)
           ELSE <<m>> \o sorted

\* variant of SortByConfidence: the values of the dict, not sorted
SortByConfidenceMissing(ms) == ms

RECURSIVE SortByConfidence(_)
SortByConfidence(ms) ==
    IF ms = <<>> THEN <<>>
    ELSE InsertByConfidence(SortByConfidence(SubSeq(ms, 1, Len(ms) - 1)), ms[Len(ms)])

PersonSearchResult(name, matches, count, errs) ==
    [person_name |-> name, matches |-> matches,
     reference_count |-> count, search_errors |-> errs]

\* variant of EmptyResult: an empty result without the marker
EmptyResultNoMarker(name) == PersonSearchResult(name, <<>>, 0, <<>>)

\* return PersonSearchResult(person_name, [], 0, ["No images found"])
EmptyResult(name) == PersonSearchResult(name, <<>>, 0, <<"No images found">>)

\* variant of FinalResult: reference_count counts the searches that succeeded
FinalResultCountsSucceeded(name, acc, imgs, errs) ==
    PersonSearchResult(name, SortByConfidence(acc), Len(imgs) - Len(errs), errs)

\* the return statement after the loop
FinalResult(name, acc, imgs, errs) ==
    PersonSearchResult(name, SortByConfidence(acc), Len(imgs), errs)

\* identities in order of first appearance, extended by one search's matches
RECURSIVE NoteFirstSeen(_, _)
NoteFirstSeen(seen, matches) ==
    IF matches = <<>> THEN seen
    ELSE NoteFirstSeen(IF Head(matches).image_path \in Range(seen) THEN seen
                       ELSE Append(seen, Head(matches).image_path),
                       Tail(matches))

\* identities whose entry is replaced by a better candidate while it is not
\* the last key of all_matches, extended by one search's matches
RECURSIVE NoteReplaced(_, _, _)
NoteReplaced(acc, matches, repl) ==
    IF matches = <<>> THEN repl
    ELSE LET m == Head(matches)
             k == KeyIndex(acc, m.image_path)
         IN NoteReplaced(MergeOne(acc, m), Tail(matches),
                         IF k # 0 /\ k < Len(acc) /\ m.confidence > acc[k].confidence
                           THEN repl \cup {m.image_path} ELSE repl)

\* Path("./results/person_matches"), the default of output_root
DefaultOutputRoot == [absolute |-> FALSE, parts |-> <<"results", "person_matches">>]

\* a directory that does not exist
AbsentDir == [exists |-> FALSE, files |-> {}]

\* no FaceService call about the output directory is under way
CopyIdle ==
    /\ cm_pc = "idle"
    /\ photos_base_dir = None
    /\ output_root = DefaultOutputRoot
    /\ cm_result = NoResult
    /\ cm_idx = 0
    /\ out_dir = AbsentDir
    /\ copied = 0
    /\ skipped = <<>>
    /\ summary = NoResult
    /\ initial_dir = AbsentDir
    /\ writes = <<>>
    /\ summaries = <<>>
    /\ attempts = <<>>

\* no call of _get_images_from_folder on its own is under way
CollectIdle ==
    /\ gi_pc = "idle"
    /\ gi_listing = <<>>
    /\ gi_max_refs = NoInt
    /\ gi_images = <<>>

\* the threads of the process, and the two concurrent copy calls
Threads == 1..MaxThreads
Racers == {1, 2}

\* no query image
NoImage == [ok |-> FALSE, faces |-> 0]

\* no FaceService.search call on its own is under way
FaceIdle ==
    /\ fs_pc = "idle"
    /\ fs_image = NoImage
    /\ fs_rows = <<>>
    /\ fs_limit = NoInt
    /\ fs_temp_path = None
    /\ temp_files = {}
    /\ fs_matches = <<>>
    /\ fs_exc = NoError
    /\ fs_calls = 0
    /\ backend_calls = <<>>

\* config_loader imported, nothing called: _config = None, the lock free
ConfigIdle ==
    /\ config = NoResult
    /\ config_lock = 0
    /\ cfg_pc = [t \in Threads |-> "idle"]
    /\ cfg_fn = [t \in Threads |-> None]
    /\ cfg_path = [t \in Threads |-> None]
    /\ cfg_calls = 0
    /\ file_reads = <<>>
    /\ cfg_returns = {}

\* no concurrent copy calls are under way
RaceIdle ==
    /\ rc_pc = [r \in Racers |-> "idle"]
    /\ rc_result = NoResult
    /\ rc_idx = [r \in Racers |-> 0]
    /\ rc_dest = [r \in Racers |-> None]
    /\ rc_dir = AbsentDir
    /\ rc_copied = [r \in Racers |-> 0]
    /\ rc_skipped = [r \in Racers |-> <<>>]
    /\ rc_writes = <<>>

\* the merge loop on its own is not running
MergeIdle ==
    /\ mg_pc = "idle"
    /\ mg_refs = <<>>
    /\ mg_idx = 0
    /\ mg_all_matches = <<>>
    /\ mg_errors = <<>>
    /\ mg_result = NoResult

\* arguments of a command that was not invoked
NoArgs == [kind |-> None, image_path |-> None, limit |-> NoInt, db_path |-> None,
           open_results |-> FALSE, debug |-> FALSE]

\* the CLI is not running
CliIdle ==
    /\ cli_pc = "idle"
    /\ cli_args = NoArgs
    /\ cli_base_dir = None
    /\ cli_result = NoResult
    /\ cli_calls = <<>>
    /\ cli_mkdirs = 0
    /\ cli_err = <<>>
    /\ cli_exc = NoError

RestIdle == FaceIdle /\ ConfigIdle /\ RaceIdle /\ MergeIdle /\ CliIdle

Init ==
    /\ pc = "start"
    /\ allowed_dirs \in AllowedConfigs
    /\ folder_path = NoPath
    /\ limit_arg = NoInt
    /\ limit = NoInt
    /\ max_refs = NoInt
    /\ validated_folder = NoPath
    /\ person_name = None
    /\ images = <<>>
    /\ idx = 0
    /\ all_matches = <<>>
    /\ errors = <<>>
    /\ result = NoResult
    /\ exc = None
    /\ enumerated = FALSE
    /\ reads = <<>>
    /\ search_calls = <<>>
    /\ outcomes = <<>>
    /\ returned = {}
    /\ first_seen = <<>>
    /\ replaced = {}
    /\ CollectIdle
    /\ CopyIdle
    /\ RestIdle

\* lines 302-309, path accepted: validated_folder, person_name, clamped limit
ValidateAccept ==
    /\ pc = "start"
    /\ \E fp \in FolderPaths, lim \in LimitArgs, mr \in MaxRefsArgs :
         /\ validate_folder_path(fp, allowed_dirs) # NoPath
         /\ folder_path' = fp
         /\ limit_arg' = lim
         /\ max_refs' = mr
         /\ validated_folder' = validate_folder_path(fp, allowed_dirs)
         /\ person_name' = ReplaceUnderscore(PathName(validate_folder_path(fp, allowed_dirs)))
         /\ limit' = ClampLimit(lim)
    /\ pc' = "collect"
    /\ UNCHANGED <<allowed_dirs, images, idx, all_matches, errors, result, exc,
                   enumerated, reads, search_calls, outcomes, returned, first_seen, replaced>>
    /\ UNCHANGED <<collect_vars, copy_vars, rest_vars>>

\* variant of ValidateReject: the folder is listed before it is validated
ValidateRejectAfterListing ==
    /\ pc = "start"
    /\ \E fp \in FolderPaths, lim \in LimitArgs, mr \in MaxRefsArgs :
         /\ validate_folder_path(fp, allowed_dirs) = NoPath
         /\ folder_path' = fp
         /\ limit_arg' = lim
         /\ max_refs' = mr
    /\ enumerated' = TRUE
    /\ exc' = "ValueError: Folder path not under allowed directories"
    /\ pc' = "raised"
    /\ UNCHANGED <<allowed_dirs, limit, validated_folder, person_name, images, idx,
                   all_matches, errors, result, reads, search_calls,
                   outcomes, returned, first_seen, replaced>>
    /\ UNCHANGED <<collect_vars, copy_vars, rest_vars>>

\* line 303, path rejected: the ValueError of _validate_folder_path leaves
\* search_person_folder
ValidateReject ==
    /\ pc = "start"
    /\ \E fp \in FolderPaths, lim \in LimitArgs, mr \in MaxRefsArgs :
         /\ validate_folder_path(fp, allowed_dirs) = NoPath
         /\ folder_path' = fp
         /\ limit_arg' = lim
         /\ max_refs' = mr
    /\ exc' = "ValueError: Folder path not under allowed directories"
    /\ pc' = "raised"
    /\ UNCHANGED <<allowed_dirs, limit, validated_folder, person_name, images, idx,
                   all_matches, errors, result, enumerated, reads, search_calls,
                   outcomes, returned, first_seen, replaced>>
    /\ UNCHANGED <<collect_vars, copy_vars, rest_vars>>

\* lines 311-313 with a folder that has no qualifying image
CollectEmpty ==
    /\ pc = "collect"
    /\ \E listing \in Listings :
         /\ get_images_from_folder(listing, max_refs) = <<>>
         /\ images' = <<>>
    /\ enumerated' = TRUE
    /\ result' = EmptyResult(person_name)
    /\ pc' = "done"
    /\ UNCHANGED <<allowed_dirs, folder_path, limit_arg, limit, max_refs,
                   validated_folder, person_name, idx, all_matches, errors, exc,
                   reads, search_calls, outcomes, returned, first_seen, replaced>>
    /\ UNCHANGED <<collect_vars, copy_vars, rest_vars>>

\* lines 311-317 with at least one qualifying image
CollectImages ==
    /\ pc = "collect"
    /\ \E listing \in Listings :
         /\ get_images_from_folder(listing, max_refs) # <<>>
         /\ images' = get_images_from_folder(listing, max_refs)
    /\ enumerated' = TRUE
    /\ all_matches' = <<>>
    /\ errors' = <<>>
    /\ pc' = "loop"
    /\ UNCHANGED <<allowed_dirs, folder_path, limit_arg, limit, max_refs,
                   validated_folder, person_name, idx, result, exc,
                   reads, search_calls, outcomes, returned, first_seen, replaced>>
    /\ UNCHANGED <<collect_vars, copy_vars, rest_vars>>

\* line 281: folder.iterdir() raises (the folder is missing, is a file or
\* is unreadable); nothing in search_person_folder catches it
CollectRaises ==
    /\ pc = "collect"
    /\ enumerated' = TRUE
    /\ exc' = "OSError"
    /\ pc' = "raised"
    /\ UNCHANGED <<allowed_dirs, folder_path, limit_arg, limit, max_refs,
                   validated_folder, person_name, images, idx, all_matches,
                   errors, result, reads, search_calls, outcomes, returned,
                   first_seen, replaced>>
    /\ UNCHANGED <<collect_vars, copy_vars, rest_vars>>

\* after the body of the loop for one reference: next iteration or lines
\* 335-347
AfterReference(acc, errs) ==
    /\ idx' = idx + 1
    /\ all_matches' = acc
    /\ errors' = errs
    /\ IF idx + 1 = Len(images)
         THEN /\ result' = FinalResult(person_name, acc, images, errs)
              /\ pc' = "done"
         ELSE /\ result' = result
              /\ pc' = "loop"
    /\ UNCHANGED <<allowed_dirs, folder_path, limit_arg, limit, max_refs,
                   validated_folder, person_name, images, exc, enumerated>>
    /\ UNCHANGED <<collect_vars, copy_vars, rest_vars>>

\* lines 319-333, img_path.read_bytes() raises
ReferenceReadFails ==
    /\ pc = "loop"
    /\ idx < Len(images)
    /\ LET name == images[idx + 1].name
           e == ReadError
       IN /\ reads' = Append(reads, name)
          /\ outcomes' = Append(outcomes, [name |-> name, ok |-> FALSE, exc |-> e])
          /\ AfterReference(all_matches, Append(errors, ErrorEntry(name, e)))
    /\ UNCHANGED <<search_calls, returned, first_seen, replaced>>

\* variant of ReferenceSearchFails: the try block is around the whole loop,
\* so the first failing search ends the loop
ReferenceSearchFailsAborts ==
    /\ pc = "loop"
    /\ idx < Len(images)
    /\ \E e \in {validate_single_face(n) : n \in (0..MaxFaces) \ {1}} \cup {BackendError} :
         LET name == images[idx + 1].name
         IN /\ reads' = Append(reads, name)
            /\ search_calls' = Append(search_calls, limit)
            /\ outcomes' = Append(outcomes, [name |-> name, ok |-> FALSE, exc |-> e])
            /\ errors' = Append(errors, ErrorEntry(name, e))
            /\ result' = FinalResult(person_name, all_matches, images,
                                     Append(errors, ErrorEntry(name, e)))
    /\ idx' = idx + 1
    /\ pc' = "done"
    /\ UNCHANGED <<allowed_dirs, folder_path, limit_arg, limit, max_refs,
                   validated_folder, person_name, images, all_matches, exc,
                   enumerated, returned, first_seen, replaced>>
    /\ UNCHANGED <<collect_vars, copy_vars, rest_vars>>

\* lines 319-333, self.search raises: no face, several faces, or a failure
\* of the backend
ReferenceSearchFails ==
    /\ pc = "loop"
    /\ idx < Len(images)
    /\ \E e \in {validate_single_face(n) : n \in (0..MaxFaces) \ {1}} \cup {BackendError} :
         LET name == images[idx + 1].name
         IN /\ reads' = Append(reads, name)
            /\ search_calls' = Append(search_calls, limit)
            /\ outcomes' = Append(outcomes, [name |-> name, ok |-> FALSE, exc |-> e])
            /\ AfterReference(all_matches, Append(errors, ErrorEntry(name, e)))
    /\ UNCHANGED <<returned, first_seen, replaced>>

\* variant of ReferenceSearched: a search that returns no candidate is
\* reported in errors like a failure
ReferenceSearchedEmptyIsError ==
    /\ pc = "loop"
    /\ idx < Len(images)
    /\ \E rows \in SeqsUpTo(BackendRows, MaxRows) :
         LET name == images[idx + 1].name
             matches == search(1, rows, limit).matches
         IN /\ reads' = Append(reads, name)
            /\ search_calls' = Append(search_calls, limit)
            /\ outcomes' = Append(outcomes, [name |-> name, ok |-> TRUE, exc |-> NoError])
            /\ returned' = returned \cup
                  {[image_path |-> m.image_path, confidence |-> m.confidence] :
                      m \in Range(matches)}
            /\ first_seen' = NoteFirstSeen(first_seen, matches)
            /\ replaced' = NoteReplaced(all_matches, matches, replaced)
            /\ AfterReference(MergeMatches(all_matches, matches),
                              IF matches = <<>>
                                THEN Append(errors, name \o ": no matches")
                                ELSE errors)

\* lines 319-328, self.search returns its matches and they are merged
ReferenceSearched ==
    /\ pc = "loop"
    /\ idx < Len(images)
    /\ \E rows \in SeqsUpTo(BackendRows, MaxRows) :
         LET name == images[idx + 1].name
             matches == search(1, rows, limit).matches
         IN /\ reads' = Append(reads, name)
            /\ search_calls' = Append(search_calls, limit)
            /\ outcomes' = Append(outcomes, [name |-> name, ok |-> TRUE, exc |-> NoError])
            /\ returned' = returned \cup
                  {[image_path |-> m.image_path, confidence |-> m.confidence] :
                      m \in Range(matches)}
            /\ first_seen' = NoteFirstSeen(first_seen, matches)
            /\ replaced' = NoteReplaced(all_matches, matches, replaced)
            /\ AfterReference(MergeMatches(all_matches, matches), errors)

Next ==
    \/ ValidateAccept
    \/ ValidateReject
    \/ CollectEmpty
    \/ CollectImages
    \/ CollectRaises
    \/ ReferenceReadFails
    \/ ReferenceSearchFails
    \/ ReferenceSearched

Spec == Init /\ [][Next]_vars

(***************************************************************************)
(* Properties of search_person_folder                                      *)
(***************************************************************************)
\* the call returned after its loop over at least one reference image
ReturnedFromLoop == pc = "done" /\ images # <<>>

ValueErrorNotAllowed == "ValueError: Folder path not under allowed directories"

\* the resolved folder is equal to or nested under a resolved allowed entry
UnderAllowed(path, allowed) ==
    \E i \in 1..Len(allowed) :
        /\ Len(Resolve(allowed[i])) <= Len(Resolve(path))
        /\ \A k \in 1..Len(Resolve(allowed[i])) :
               Resolve(path)[k] = Resolve(allowed[i])[k]

\* C1: the returned matches hold at most one entry per image_path, and the
\* confidence of that entry is the greatest confidence any reference search
\* returned for that image_path.
C1_OneEntryPerIdentityWithBestConfidence ==
    ReturnedFromLoop =>
        /\ \A i, j \in 1..Len(result.matches) :
               result.matches[i].image_path = result.matches[j].image_path => i = j
        /\ \A i \in 1..Len(result.matches) :
               /\ [image_path |-> result.matches[i].image_path,
                   confidence |-> result.matches[i].confidence] \in returned
               /\ \A r \in returned :
                      r.image_path = result.matches[i].image_path
                          => r.confidence <= result.matches[i].confidence

\* two searches returned photo1 with 0.7 and 0.8 and photo2 once: the
\* result has one entry for photo1, with 0.8
C1_Witness ==
    /\ ReturnedFromLoop
    /\ limit = 1
    /\ returned = { [image_path |-> "event/photo1.jpg", confidence |-> 70],
                    [image_path |-> "event/photo1.jpg", confidence |-> 80],
                    [image_path |-> "event/photo2.jpg", confidence |-> 70] }
    /\ Len(result.matches) = 2
    /\ result.matches[1].image_path = "event/photo1.jpg"
    /\ result.matches[1].confidence = 80

\* C2: a failing read or search of one reference does not end the call:
\* every reference image is attempted, every failure has its entry in
\* search_errors, and every identity returned by a search before or after
\* the failing reference is in the matches.
C2_FailureNeverAborts ==
    /\ (pc \in {"loop", "done"} /\ images # <<>>) => exc = None
    /\ ReturnedFromLoop =>
        /\ Len(outcomes) = Len(images)
        /\ \A i \in 1..Len(images) : outcomes[i].name = images[i].name
        /\ Len(result.search_errors) =
               Cardinality({i \in 1..Len(outcomes) : ~outcomes[i].ok})
        /\ \A i \in 1..Len(outcomes) :
               ~outcomes[i].ok =>
                   \E k \in 1..Len(result.search_errors) :
                       result.search_errors[k] \in
                           {"No face: " \o outcomes[i].name,
                            outcomes[i].name \o ": " \o outcomes[i].exc.msg}
        /\ \A r \in returned :
               \E k \in 1..Len(result.matches) :
                   result.matches[k].image_path = r.image_path

\* three references: the first search returns photo1, the second reference
\* fails, the third search returns photo2; both photos are in the result
C2_Witness ==
    /\ ReturnedFromLoop
    /\ limit = 1
    /\ Len(outcomes) = 3
    /\ outcomes[1].ok /\ ~outcomes[2].ok /\ outcomes[3].ok
    /\ first_seen = <<"event/photo1.jpg", "event/photo2.jpg">>
    /\ Len(result.matches) = 2
    /\ Len(result.search_errors) = 1

\* C3: a folder whose resolved path is outside every allowed directory is
\* rejected with the ValueError before the folder is enumerated, before any
\* reference file is read and before any search is invoked.
C3_RejectedBeforeAnyWork ==
    (folder_path # NoPath /\ ~UnderAllowed(folder_path, allowed_dirs)) =>
        /\ pc = "raised"
        /\ exc = ValueErrorNotAllowed
        /\ ~enumerated
        /\ reads = <<>>
        /\ search_calls = <<>>
        /\ images = <<>>
        /\ result = NoResult

\* the traversal path /data/people/../../etc is rejected under the allowed
\* directory /data/people
C3_Witness ==
    /\ pc = "raised"
    /\ exc = ValueErrorNotAllowed
    /\ folder_path = <<"data", "people", "..", "..", "etc">>
    /\ allowed_dirs = << <<"data", "people">> >>
    /\ ~enumerated

\* C4: _validate_folder_path returns the resolved folder if and only if the
\* resolved folder is equal to or nested under a resolved entry of the
\* allowed list; with an empty list every path is rejected.
C4_ValidatedIffUnderAllowed ==
    folder_path # NoPath =>
        /\ UnderAllowed(folder_path, allowed_dirs) <=>
               (validated_folder = Resolve(folder_path) /\ exc # ValueErrorNotAllowed)
        /\ ~UnderAllowed(folder_path, allowed_dirs) <=>
               (validated_folder = NoPath /\ exc = ValueErrorNotAllowed)
        /\ allowed_dirs = <<>> => exc = ValueErrorNotAllowed

\* /data/link is accepted because it resolves to /etc, which the allowed
\* entry /data/link resolves to as well
C4_Witness ==
    /\ folder_path = <<"data", "link">>
    /\ allowed_dirs = << <<"data", "link">> >>
    /\ validated_folder = <<"etc">>
    /\ pc = "collect"

\* C5: the returned matches are in non-increasing order of confidence.
C5_MatchesNonIncreasing ==
    ReturnedFromLoop =>
        \A i, j \in 1..Len(result.matches) :
            i < j => result.matches[i].confidence >= result.matches[j].confidence

\* the matches were accumulated in increasing order of confidence
C5_Witness ==
    /\ ReturnedFromLoop
    /\ Len(all_matches) = 2
    /\ all_matches[1].confidence < all_matches[2].confidence
    /\ result.matches = <<all_matches[2], all_matches[1]>>

\* position of an identity in the order of first appearance
FirstSeenIndex(image_path) ==
    CHOOSE k \in 1..Len(first_seen) : first_seen[k] = image_path

\* C6: matches of equal confidence are in the order in which their
\* identities were first seen during the traversal of the references, also
\* when an identity's entry was replaced by a better candidate of a later
\* reference.
C6_TiesInFirstSeenOrder ==
    ReturnedFromLoop =>
        \A i, j \in 1..Len(result.matches) :
            (i < j /\ result.matches[i].confidence = result.matches[j].confidence)
                => /\ result.matches[i].image_path \in Range(first_seen)
                   /\ result.matches[j].image_path \in Range(first_seen)
                   /\ FirstSeenIndex(result.matches[i].image_path)
                          < FirstSeenIndex(result.matches[j].image_path)

\* photo1 was seen first with 0.7, photo2 then with 0.8, and a later
\* reference raised photo1 to 0.8: photo1 is still before photo2
C6_Witness ==
    /\ ReturnedFromLoop
    /\ first_seen = <<"event/photo1.jpg", "event/photo2.jpg">>
    /\ "event/photo1.jpg" \in replaced
    /\ [image_path |-> "event/photo1.jpg", confidence |-> 70] \in returned
    /\ Len(result.matches) = 2
    /\ result.matches[1].image_path = "event/photo1.jpg"
    /\ result.matches[2].image_path = "event/photo2.jpg"
    /\ result.matches[1].confidence = 80
    /\ result.matches[2].confidence = 80

\* C7: with at least one qualifying image, reference_count is the number of
\* images _get_images_from_folder returned, which is the number of
\* references attempted, whatever the number of failed or empty searches.
C7_ReferenceCountIsImageCount ==
    ReturnedFromLoop =>
        /\ result.reference_count = Len(images)
        /\ result.reference_count = Len(reads)

\* three references of which one failed and the others found nothing
C7_Witness ==
    /\ ReturnedFromLoop
    /\ Len(images) = 3
    /\ result.reference_count = 3
    /\ Len(result.search_errors) = 1
    /\ returned = {}
    /\ result.matches = <<>>

\* C8: when no qualifying reference image is found, no file is read, no
\* search is invoked and the result has no matches, reference_count 0 and
\* search_errors ["No images found"].
C8_NoImagesResult ==
    (pc = "done" /\ images = <<>>) =>
        /\ result.matches = <<>>
        /\ result.reference_count = 0
        /\ result.search_errors = <<"No images found">>
        /\ search_calls = <<>>
        /\ reads = <<>>

\* the folder was listed and nothing qualified
C8_Witness ==
    /\ pc = "done"
    /\ enumerated
    /\ images = <<>>
    /\ result.person_name = "Nguyen Thanh Phong"
    /\ result.search_errors = <<"No images found">>

\* C9 as claimed: once the folder passed the path validation no exception
\* reaches the caller of search_person_folder.
C9_NoExceptionAfterValidation ==
    validated_folder # NoPath => exc = None

\* the outcomes of the references that failed, in traversal order
FailedOutcomes == SelectSeq(outcomes, LAMBDA o : ~o.ok)

\* the entry of search_errors the claim gives a failed reference
ClaimedErrorEntry(o) ==
    CASE o.exc.type = "NoFaceDetectedError" -> "No face: " \o o.name
      [] o.exc.type = "MultipleFacesError" ->
           o.name \o ": Multiple faces (" \o ToString(o.exc.count)
                  \o "). Upload image with one face."
      [] o.exc.type = "PermissionError" -> o.name \o ": [Errno 13] Permission denied"
      [] OTHER -> o.name \o ": " \o o.exc.msg

\* C10: a reference whose search raises NoFaceDetectedError adds exactly
\* "No face: <filename>" to the errors, a reference failing in any other way
\* (MultipleFacesError, a failed read, a backend failure) adds exactly
\* "<filename>: <message>", and neither ends the call.
C10_ErrorEntryFormats ==
    (pc \in {"loop", "done"} /\ images # <<>>) =>
        /\ exc = None
        /\ Len(errors) = Len(FailedOutcomes)
        /\ \A k \in 1..Len(errors) : errors[k] = ClaimedErrorEntry(FailedOutcomes[k])
        /\ pc = "done" => result.search_errors = errors

\* one reference without a face, one with two faces, one unreadable
C10_Witness ==
    /\ ReturnedFromLoop
    /\ Len(images) = 3
    /\ images[1].name = "ref1.jpg" /\ images[2].name = "REF2.JPG"
    /\ result.search_errors =
         << "No face: ref1.jpg",
            "REF2.JPG: Multiple faces (2). Upload image with one face.",
            "ref3.png: [Errno 13] Permission denied" >>
    /\ result.reference_count = 3

\* positions of the references whose read or search failed
FailedReferences == {i \in 1..Len(outcomes) : ~outcomes[i].ok}

\* C28: after the loop search_errors has exactly one entry per reference
\* whose read or search failed, in collection order, none for a reference
\* whose search succeeded (also with zero candidates), and the identities
\* of matches are exactly those the successful searches returned.
C28_ErrorsAndMatchesAccountForReferences ==
    ReturnedFromLoop =>
        /\ Len(outcomes) = Len(images)
        /\ Len(result.search_errors) = Cardinality(FailedReferences)
        /\ \A i \in FailedReferences :
               result.search_errors[Cardinality({j \in FailedReferences : j <= i})]
                   \in {"No face: " \o images[i].name,
                        images[i].name \o ": " \o outcomes[i].exc.msg}
        /\ {result.matches[k].image_path : k \in 1..Len(result.matches)}
               = {r.image_path : r \in returned}

\* a search without candidates, a reference without a face, and a search
\* that returns photo1: one error entry, one match
C28_Witness ==
    /\ ReturnedFromLoop
    /\ Len(outcomes) = 3
    /\ outcomes[1].ok /\ ~outcomes[2].ok /\ outcomes[3].ok
    /\ returned = {[image_path |-> "event/photo1.jpg", confidence |-> 70]}
    /\ first_seen = <<"event/photo1.jpg">>
    /\ idx = 3 /\ Len(all_matches) = 1 /\ Len(search_calls) = 3
    /\ result.search_errors = <<"No face: REF2.JPG">>
    /\ Len(result.matches) = 1
    /\ result.matches[1].image_path = "event/photo1.jpg"

(***************************************************************************)
(* _get_images_from_folder called on its own                               *)
(***************************************************************************)
\* values of max_refs
CollectMaxRefs == (1..(MaxEntries + 1)) \cup {50}

\* rest of the search_person_folder state while the collector runs alone
SearchIdle ==
    /\ pc = "start"
    /\ allowed_dirs = <<>>
    /\ folder_path = NoPath
    /\ limit_arg = NoInt
    /\ limit = NoInt
    /\ max_refs = NoInt
    /\ validated_folder = NoPath
    /\ person_name = None
    /\ images = <<>>
    /\ idx = 0
    /\ all_matches = <<>>
    /\ errors = <<>>
    /\ result = NoResult
    /\ exc = None
    /\ enumerated = FALSE
    /\ reads = <<>>
    /\ search_calls = <<>>
    /\ outcomes = <<>>
    /\ returned = {}
    /\ first_seen = <<>>
    /\ replaced = {}

InitCollect ==
    /\ gi_pc = "call"
    /\ gi_listing \in Listings
    /\ gi_max_refs \in CollectMaxRefs
    /\ gi_images = <<>>
    /\ SearchIdle
    /\ CopyIdle
    /\ RestIdle

\* variant of GetImages: the listing is cut to max_refs before it is filtered
GetImagesCutFirst ==
    /\ gi_pc = "call"
    /\ gi_images' = FilterImages(Take(gi_listing, gi_max_refs), Extensions(allowed_formats))
    /\ gi_pc' = "returned"
    /\ UNCHANGED <<gi_listing, gi_max_refs, search_vars, copy_vars, rest_vars>>

\* lines 275-284
GetImages ==
    /\ gi_pc = "call"
    /\ gi_images' = get_images_from_folder(gi_listing, gi_max_refs)
    /\ gi_pc' = "returned"
    /\ UNCHANGED <<gi_listing, gi_max_refs, search_vars, copy_vars, rest_vars>>

NextCollect == GetImages

SpecCollect == InitCollect /\ [][NextCollect]_vars

(***************************************************************************)
(* Properties of _get_images_from_folder                                   *)
(***************************************************************************)
\* a regular file that is no symbolic link and whose extension is, in any
\* letter case, one of jpeg, jpg, png, heic
IsReferenceImage(f) ==
    /\ f.is_file
    /\ ~f.is_symlink
    /\ f.suffix \in {".jpeg", ".JPEG", ".jpg", ".JPG", ".png", ".PNG", ".heic", ".HEIC"}

\* the qualifying direct children in enumeration order
QualifyingEnumeration == SelectSeq(gi_listing, IsReferenceImage)

\* number of qualifying entries the enumeration yields before position i
QualifyingBefore(i) ==
    Cardinality({k \in 1..(i - 1) : IsReferenceImage(gi_listing[k])})

\* C16 as claimed: a file is returned if and only if it is a direct child,
\* a regular file, no symbolic link and has an allowed extension.
C16_ReturnedIffQualifies ==
    gi_pc = "returned" =>
        \A f \in DirEntries \cup SubdirEntries :
            f \in Range(gi_images) <=> (f \in Range(gi_listing) /\ IsReferenceImage(f))

\* C16 as amended: a file is returned if and only if it is a direct child,
\* a regular file, no symbolic link, has an allowed extension in any letter
\* case and fewer than max_refs such files precede it in the enumeration;
\* files of subdirectories are never returned and nothing qualifying gives
\* the empty list.
C16_ReturnedIffQualifiesWithinMaxRefs ==
    gi_pc = "returned" =>
        /\ \A f \in SubdirEntries : f \notin Range(gi_images)
        /\ \A f \in Range(gi_images) : f \in Range(gi_listing)
        /\ \A i \in 1..Len(gi_listing) :
               gi_listing[i] \in Range(gi_images) <=>
                   (IsReferenceImage(gi_listing[i]) /\ QualifyingBefore(i) < gi_max_refs)
        /\ (\A i \in 1..Len(gi_listing) : ~IsReferenceImage(gi_listing[i]))
               => gi_images = <<>>

\* a folder with a subdirectory, a symbolic link and an image with an
\* upper-case extension: only the image is returned
C16_Witness ==
    /\ gi_pc = "returned"
    /\ gi_max_refs = 50
    /\ Len(gi_listing) = 3
    /\ {gi_listing[i].name : i \in 1..3} = {"album.jpg", "link.png", "REF2.JPG"}
    /\ Len(gi_images) = 1
    /\ gi_images[1].name = "REF2.JPG"

\* C17: the result is the first max_refs entries of the qualifying
\* enumeration: a prefix of it with min(max_refs, number qualifying) entries.
C17_FirstMaxRefsQualifying ==
    gi_pc = "returned" =>
        /\ Len(gi_images) = Min(gi_max_refs, Len(QualifyingEnumeration))
        /\ Len(gi_images) <= gi_max_refs
        /\ \A i \in 1..Len(gi_images) : gi_images[i] = QualifyingEnumeration[i]

\* three qualifying files and max_refs 2: the first two are returned
C17_Witness ==
    /\ gi_pc = "returned"
    /\ gi_max_refs = 2
    /\ Len(QualifyingEnumeration) = 3
    /\ gi_images = SubSeq(gi_listing, 1, 2)

(***************************************************************************)
(* Properties of the arguments of search_person_folder                     *)
(***************************************************************************)
\* C18: every per-reference search is invoked with the limit argument
\* clamped into [1, 1000]: below 1 gives 1, above 1000 gives 1000, a value
\* inside the range is passed unchanged.
C18_SearchLimitClamped ==
    \A k \in 1..Len(search_calls) :
        /\ search_calls[k] >= 1
        /\ search_calls[k] <= 1000
        /\ limit_arg < 1 => search_calls[k] = 1
        /\ limit_arg > 1000 => search_calls[k] = 1000
        /\ (limit_arg >= 1 /\ limit_arg <= 1000) => search_calls[k] = limit_arg

\* limit 2000: three references were searched with limit 1000
C18_Witness ==
    /\ pc = "done"
    /\ limit_arg = 2000
    /\ search_calls = <<1000, 1000, 1000>>

\* C19: person_name of the result is the final component of the resolved
\* folder with every underscore replaced by one space and nothing else
\* changed, in the result of the loop and in the empty-folder result.
C19_PersonNameFromFolder ==
    result # NoResult =>
        /\ validated_folder = <<"data", "people", "Nguyen_Thanh_Phong">>
               => result.person_name = "Nguyen Thanh Phong"
        /\ validated_folder = <<"etc">> => result.person_name = "etc"
        /\ validated_folder \in {<<"data", "people", "Nguyen_Thanh_Phong">>, <<"etc">>}

\* the folder Nguyen_Thanh_Phong searched with two reference images
C19_Witness ==
    /\ ReturnedFromLoop
    /\ Len(images) = 2
    /\ folder_path = <<"data", "people", "Nguyen_Thanh_Phong">>
    /\ result.person_name = "Nguyen Thanh Phong"

(***************************************************************************)
(* set_photos_base_dir, resolve_image_path, _get_unique_filename and       *)
(* copy_matches_to_output                                                  *)
(*                                                                         *)
(* A Path is a record: absolute or not, and its components.                *)
(***************************************************************************)
\* the working directory of the process
Cwd == <<"app">>

\* cfg["storage"]["event_photos"]
db_path == "/srv/event_photos"

\* arguments of set_photos_base_dir
BaseDirArgs == {"/mnt/archive", "/mnt/old/../archive"}

\* image_path values of the matches
CopyIdentities ==
    { "MAY_01/DSC07452.jpg", "MAY_02/DSC07452.jpg", "MAY_01/gone.jpg",
      "/legacy/photos/locked.jpg" }

\* Path(s) for the strings of the model
ParsePath(s) ==
    CASE s = "/srv/event_photos" -> [absolute |-> TRUE, parts |-> <<"srv", "event_photos">>]
      [] s = "/mnt/archive" -> [absolute |-> TRUE, parts |-> <<"mnt", "archive">>]
      [] s = "/mnt/old/../archive" ->
           [absolute |-> TRUE, parts |-> <<"mnt", "old", "..", "archive">>]
      [] s = "MAY_01/DSC07452.jpg" -> [absolute |-> FALSE, parts |-> <<"MAY_01", "DSC07452.jpg">>]
      [] s = "MAY_02/DSC07452.jpg" -> [absolute |-> FALSE, parts |-> <<"MAY_02", "DSC07452.jpg">>]
      [] s = "MAY_01/gone.jpg" -> [absolute |-> FALSE, parts |-> <<"MAY_01", "gone.jpg">>]
      [] s = "/legacy/photos/locked.jpg" ->
           [absolute |-> TRUE, parts |-> <<"legacy", "photos", "locked.jpg">>]

\* str(path)
RECURSIVE JoinParts(_)
JoinParts(parts) ==
    IF parts = <<>> THEN ""
    ELSE IF Len(parts) = 1 THEN parts[1]
    ELSE parts[1] \o "/" \o JoinParts(Tail(parts))

PathStr(p) == (IF p.absolute THEN "/" ELSE "") \o JoinParts(p.parts)

\* path / other: an absolute right operand replaces the left one
JoinPath(p, q) ==
    IF q.absolute THEN q
    ELSE [absolute |-> p.absolute, parts |-> p.parts \o q.parts]

\* path.resolve(): relative paths start at the working directory
ResolvePath(p) ==
    [absolute |-> TRUE,
     parts |-> Resolve(IF p.absolute THEN p.parts ELSE Cwd \o p.parts)]

\* Path.stem and Path.suffix of the file names of the model
FileStem(name) ==
    CASE name = "DSC07452.jpg" -> "DSC07452"
      [] name = "gone.jpg" -> "gone"
      [] name = "locked.jpg" -> "locked"

FileSuffix(name) == ".jpg"

\* self._photos_base_dir = str(Path(base_dir).resolve())
set_photos_base_dir(base_dir) == PathStr(ResolvePath(ParsePath(base_dir)))

\* the Path that resolve_image_path returns as a string
ResolvedImagePath(relative_path, base_dir) ==
    IF ParsePath(relative_path).absolute THEN ParsePath(relative_path)
    ELSE JoinPath(ParsePath(IF base_dir # None THEN base_dir ELSE db_path),
                  ParsePath(relative_path))

\* variant of resolve_image_path: the base is always the configured directory
resolve_image_path_config_base(relative_path, base_dir) ==
    IF ParsePath(relative_path).absolute THEN relative_path
    ELSE PathStr(ResolvedImagePath(relative_path, None))

resolve_image_path(relative_path, base_dir) ==
    IF ParsePath(relative_path).absolute THEN relative_path
    ELSE PathStr(ResolvedImagePath(relative_path, base_dir))

\* the photo archive on disk: the files that exist, and whether they can
\* be read
SourceFiles ==
    { [path |-> "/srv/event_photos/MAY_01/DSC07452.jpg", readable |-> TRUE],
      [path |-> "/srv/event_photos/MAY_02/DSC07452.jpg", readable |-> TRUE],
      [path |-> "/mnt/archive/MAY_01/DSC07452.jpg", readable |-> TRUE],
      [path |-> "/mnt/archive/MAY_01/gone.jpg", readable |-> TRUE],
      [path |-> "/legacy/photos/locked.jpg", readable |-> FALSE] }

\* source_path.exists()
SourceExists(source) == \E f \in SourceFiles : f.path = source

SourceReadable(source) == \E f \in SourceFiles : f.path = source /\ f.readable

\* names of the files of a directory
FileNames(files) == {f.name : f \in files}

\* the while loop of _get_unique_filename
RECURSIVE UniqueFrom(_, _, _, _)
UniqueFrom(names, stem, suffix, counter) ==
    IF (stem \o "_" \o ToString(counter) \o suffix) \notin names
      THEN stem \o "_" \o ToString(counter) \o suffix
      ELSE UniqueFrom(names, stem, suffix, counter + 1)

\* variant of get_unique_filename: the destination is dest_dir / filename
get_filename_unchecked(files, filename) == filename

\* _get_unique_filename: the name of the destination in the directory
get_unique_filename(files, filename) ==
    IF filename \notin FileNames(files) THEN filename
    ELSE UniqueFrom(FileNames(files), FileStem(filename), FileSuffix(filename), 1)

\* shutil.copy2(source, dest_dir / name): a file of that name is replaced
CopyInto(files, name, source) ==
    {f \in files : f.name # name} \cup {[name |-> name, content |-> source]}

\* values of cfg["person_search"]["output_root"]
OutputRoots ==
    { DefaultOutputRoot,
      [absolute |-> TRUE, parts |-> <<"srv", "out">>],
      [absolute |-> FALSE, parts |-> <<"..", "out">>] }

\* what the person's directory can hold before the first run
InitialDirs ==
    {AbsentDir} \cup
    { [exists |-> TRUE, files |-> fs] :
        fs \in SUBSET { [name |-> "DSC07452.jpg", content |-> "earlier"],
                        [name |-> "DSC07452_1.jpg", content |-> "earlier"] } }

\* results handed to copy_matches_to_output: distinct identities
CopyResults ==
    { PersonSearchResult("Nguyen Thanh Phong",
          [i \in 1..Len(ids) |->
              [image_path |-> ids[i], distance |-> 20, confidence |-> 80]],
          1, <<>>) : ids \in InjSeqsUpTo(CopyIdentities, MaxMatches) }

OutputSummary(count, path, skips) ==
    [copied_count |-> count, output_path |-> path, skipped_files |-> skips]

\* person_folder = Path(output_root) / result.person_name
PersonFolder == JoinPath(output_root, [absolute |-> FALSE, parts |-> <<cm_result.person_name>>])

\* lines 400-404
ReturnSummary(count, skips) ==
    OutputSummary(count, PathStr(ResolvePath(PersonFolder)), skips)

InitCopy ==
    /\ cm_pc = "idle"
    /\ photos_base_dir = None
    /\ output_root \in OutputRoots
    /\ cm_result \in CopyResults
    /\ cm_idx = 0
    /\ out_dir \in InitialDirs
    /\ copied = 0
    /\ skipped = <<>>
    /\ summary = NoResult
    /\ initial_dir = out_dir
    /\ writes = <<>>
    /\ summaries = <<>>
    /\ attempts = <<>>
    /\ SearchIdle
    /\ CollectIdle
    /\ RestIdle

\* lines 95-97, called before the first copy (the --db-path option)
SetPhotosBaseDir ==
    /\ cm_pc = "idle"
    /\ photos_base_dir = None
    /\ \E base_dir \in BaseDirArgs : photos_base_dir' = set_photos_base_dir(base_dir)
    /\ UNCHANGED <<cm_pc, output_root, cm_result, cm_idx, out_dir, copied, skipped,
                   summary, initial_dir, writes, summaries, attempts>>
    /\ UNCHANGED <<search_vars, collect_vars, rest_vars>>
\* the run under way, counted from 1
CurrentRun == Len(summaries) + 1

\* the match the loop is at and its resolved source (lines 385-386)
CurrentMatch == cm_result.matches[cm_idx + 1]

CurrentSource == resolve_image_path(CurrentMatch.image_path, photos_base_dir)

\* source_path.name
SourceName(image_path) ==
    LET parts == ParsePath(image_path).parts IN parts[Len(parts)]

\* variant of CopyStartEmpty: with no match the call returns before mkdir
CopyStartEmptyNoMkdir ==
    /\ cm_pc \in {"idle", "returned"}
    /\ Len(summaries) < MaxRuns
    /\ cm_result.matches = <<>>
    /\ copied' = 0
    /\ skipped' = <<>>
    /\ cm_idx' = 0
    /\ summary' = ReturnSummary(0, <<>>)
    /\ summaries' = Append(summaries, ReturnSummary(0, <<>>))
    /\ cm_pc' = "returned"
    /\ UNCHANGED <<photos_base_dir, output_root, cm_result, out_dir, initial_dir,
                   writes, attempts>>
    /\ UNCHANGED <<search_vars, collect_vars, rest_vars>>

\* lines 374-383 and 400-404 for a result without matches
CopyStartEmpty ==
    /\ cm_pc \in {"idle", "returned"}
    /\ Len(summaries) < MaxRuns
    /\ cm_result.matches = <<>>
    /\ out_dir' = [out_dir EXCEPT !.exists = TRUE]
    /\ copied' = 0
    /\ skipped' = <<>>
    /\ cm_idx' = 0
    /\ summary' = ReturnSummary(0, <<>>)
    /\ summaries' = Append(summaries, ReturnSummary(0, <<>>))
    /\ cm_pc' = "returned"
    /\ UNCHANGED <<photos_base_dir, output_root, cm_result, initial_dir, writes,
                   attempts>>
    /\ UNCHANGED <<search_vars, collect_vars, rest_vars>>

\* lines 374-383: mkdir(parents=True, exist_ok=True), copied = 0, skipped = []
CopyStart ==
    /\ cm_pc \in {"idle", "returned"}
    /\ Len(summaries) < MaxRuns
    /\ cm_result.matches # <<>>
    /\ out_dir' = [out_dir EXCEPT !.exists = TRUE]
    /\ copied' = 0
    /\ skipped' = <<>>
    /\ cm_idx' = 0
    /\ cm_pc' = "loop"
    /\ UNCHANGED <<photos_base_dir, output_root, cm_result, summary, initial_dir,
                   writes, summaries, attempts>>
    /\ UNCHANGED <<search_vars, collect_vars, rest_vars>>

\* after the body of the loop for one match: next iteration or lines 400-404
AfterMatch(count, skips, outcome) ==
    /\ cm_idx' = cm_idx + 1
    /\ copied' = count
    /\ skipped' = skips
    /\ attempts' = Append(attempts,
                     [run |-> CurrentRun, image_path |-> CurrentMatch.image_path,
                      source |-> CurrentSource, outcome |-> outcome])
    /\ IF cm_idx + 1 = Len(cm_result.matches)
         THEN /\ summary' = ReturnSummary(count, skips)
              /\ summaries' = Append(summaries, ReturnSummary(count, skips))
              /\ cm_pc' = "returned"
         ELSE /\ UNCHANGED <<summary, summaries>>
              /\ cm_pc' = "loop"
    /\ UNCHANGED <<photos_base_dir, output_root, cm_result, initial_dir>>
    /\ UNCHANGED <<search_vars, collect_vars, rest_vars>>

\* variant of CopyMissing: the missing source ends the loop
CopyMissingAborts ==
    /\ cm_pc = "loop"
    /\ cm_idx < Len(cm_result.matches)
    /\ ~SourceExists(CurrentSource)
    /\ cm_idx' = cm_idx + 1
    /\ skipped' = Append(skipped, "Missing: " \o CurrentMatch.image_path)
    /\ attempts' = Append(attempts,
                     [run |-> CurrentRun, image_path |-> CurrentMatch.image_path,
                      source |-> CurrentSource, outcome |-> "missing"])
    /\ summary' = ReturnSummary(copied, Append(skipped, "Missing: " \o CurrentMatch.image_path))
    /\ summaries' = Append(summaries, summary')
    /\ cm_pc' = "returned"
    /\ UNCHANGED <<photos_base_dir, output_root, cm_result, initial_dir, out_dir,
                   writes, copied>>
    /\ UNCHANGED <<search_vars, collect_vars, rest_vars>>

\* lines 385-390: the resolved source does not exist
CopyMissing ==
    /\ cm_pc = "loop"
    /\ cm_idx < Len(cm_result.matches)
    /\ ~SourceExists(CurrentSource)
    /\ AfterMatch(copied, Append(skipped, "Missing: " \o CurrentMatch.image_path),
                  "missing")
    /\ UNCHANGED <<out_dir, writes>>

\* variant of CopyFile: a match whose name is already in the directory is
\* taken as copied before and is skipped
CopyFileSkipExisting ==
    /\ cm_pc = "loop"
    /\ cm_idx < Len(cm_result.matches)
    /\ SourceExists(CurrentSource)
    /\ SourceReadable(CurrentSource)
    /\ IF SourceName(CurrentMatch.image_path) \in FileNames(out_dir.files)
         THEN /\ AfterMatch(copied,
                     Append(skipped, "Exists: " \o SourceName(CurrentMatch.image_path)),
                     "missing")
              /\ UNCHANGED <<out_dir, writes>>
         ELSE /\ out_dir' = [out_dir EXCEPT !.files =
                     CopyInto(out_dir.files, SourceName(CurrentMatch.image_path), CurrentSource)]
              /\ writes' = Append(writes,
                     [run |-> CurrentRun, image_path |-> CurrentMatch.image_path,
                      name |-> SourceName(CurrentMatch.image_path),
                      content |-> CurrentSource])
              /\ AfterMatch(copied + 1, skipped, "copied")

\* lines 385-396: the source exists and shutil.copy2 succeeds
CopyFile ==
    /\ cm_pc = "loop"
    /\ cm_idx < Len(cm_result.matches)
    /\ SourceExists(CurrentSource)
    /\ SourceReadable(CurrentSource)
    /\ LET name == get_unique_filename(out_dir.files, SourceName(CurrentMatch.image_path))
       IN /\ out_dir' = [out_dir EXCEPT !.files = CopyInto(out_dir.files, name, CurrentSource)]
          /\ writes' = Append(writes,
                 [run |-> CurrentRun, image_path |-> CurrentMatch.image_path,
                  name |-> name, content |-> CurrentSource])
    /\ AfterMatch(copied + 1, skipped, "copied")

\* variant of CopyFails: the except clause swallows the error silently
CopyFailsSilently ==
    /\ cm_pc = "loop"
    /\ cm_idx < Len(cm_result.matches)
    /\ SourceExists(CurrentSource)
    /\ ~SourceReadable(CurrentSource)
    /\ AfterMatch(copied, skipped, "failed")
    /\ UNCHANGED <<out_dir, writes>>

\* lines 385-398: the source exists and shutil.copy2 raises on reading it
CopyFails ==
    /\ cm_pc = "loop"
    /\ cm_idx < Len(cm_result.matches)
    /\ SourceExists(CurrentSource)
    /\ ~SourceReadable(CurrentSource)
    /\ AfterMatch(copied,
           Append(skipped, "Copy failed " \o SourceName(CurrentMatch.image_path)
                               \o ": " \o ReadError.msg),
           "failed")
    /\ UNCHANGED <<out_dir, writes>>

NextCopy ==
    \/ SetPhotosBaseDir
    \/ CopyStartEmpty
    \/ CopyStart
    \/ CopyMissing
    \/ CopyFile
    \/ CopyFails

SpecCopy == InitCopy /\ [][NextCopy]_vars

(***************************************************************************)
(* Properties of copy_matches_to_output and resolve_image_path             *)
(***************************************************************************)
\* names in the directory when the i-th copy chose its destination
TakenBefore(i) ==
    FileNames(initial_dir.files) \cup {writes[h].name : h \in 1..(i - 1)}

\* the base name for counter 0, name_k.ext for counter k
CandidateName(image_path, k) ==
    IF k = 0 THEN SourceName(image_path)
    ELSE FileStem(SourceName(image_path)) \o "_" \o ToString(k)
             \o FileSuffix(SourceName(image_path))

FolderPrefixedName(image_path) ==
    LET parts == ParsePath(image_path).parts
    IN parts[Len(parts) - 1] \o "_" \o parts[Len(parts)]

\* C12 as claimed: every destination file is named by the source's parent
\* folder name, an underscore and the source's base name.
C12_FolderPrefixedNames ==
    \A i \in 1..Len(writes) : writes[i].name = FolderPrefixedName(writes[i].image_path)

\* C13: runs of copy_matches_to_output with the same result all report the
\* same copied_count; a later run writes only suffixed names, every file
\* written before stays with its content, and after n runs the directory
\* holds n times copied_count files more than before the first run.
C13_RerunAddsNewFiles ==
    /\ \A k \in 1..Len(summaries) :
           summaries[k].copied_count = summaries[1].copied_count
    /\ \A i \in 1..Len(writes) :
           /\ writes[i].run > 1 => writes[i].name # SourceName(writes[i].image_path)
           /\ \E f \in out_dir.files :
                  f.name = writes[i].name /\ f.content = writes[i].content
    /\ \A r \in 1..Len(summaries) :
           Cardinality({i \in 1..Len(writes) : writes[i].run = r})
               = summaries[r].copied_count
    /\ (cm_pc = "returned" /\ summaries # <<>>) =>
           Cardinality(out_dir.files) =
               Cardinality(initial_dir.files) + Len(summaries) * summaries[1].copied_count

\* two runs into a fresh directory with copied_count 2: four files
C13_Witness ==
    /\ cm_pc = "returned"
    /\ Len(summaries) = 2
    /\ initial_dir.files = {}
    /\ summaries[1].copied_count = 2
    /\ summaries[2].copied_count = 2
    /\ Cardinality(out_dir.files) = 4

\* the run the loop is in, or the run that returned last
ThisRun == IF cm_pc = "returned" THEN Len(summaries) ELSE Len(summaries) + 1

\* what the loop of that run has handled so far
RunAttempts == SelectSeq(attempts, LAMBDA a : a.run = ThisRun)

\* the entry of skipped_files the claim gives a match that was not copied
ClaimedSkipEntry(a) ==
    IF a.outcome = "missing" THEN "Missing: " \o a.image_path
    ELSE "Copy failed " \o SourceName(a.image_path) \o ": [Errno 13] Permission denied"

\* C14: a match whose resolved source does not exist adds
\* "Missing: <identity>", a match whose copy raises adds
\* "Copy failed <name>: <message>"; every match is handled, and
\* copied_count counts the copied matches only.
C14_SkipsAreNotFatal ==
    cm_pc \in {"loop", "returned"} =>
        /\ Len(RunAttempts) = cm_idx
        /\ \A i \in 1..Len(RunAttempts) :
               /\ RunAttempts[i].image_path = cm_result.matches[i].image_path
               /\ RunAttempts[i].outcome = "missing" <=> ~SourceExists(RunAttempts[i].source)
               /\ RunAttempts[i].outcome = "failed" <=>
                      (SourceExists(RunAttempts[i].source)
                           /\ ~SourceReadable(RunAttempts[i].source))
        /\ skipped = [k \in 1..Len(SelectSeq(RunAttempts, LAMBDA a : a.outcome # "copied")) |->
                         ClaimedSkipEntry(SelectSeq(RunAttempts, LAMBDA a : a.outcome # "copied")[k])]
        /\ copied = Len(SelectSeq(RunAttempts, LAMBDA a : a.outcome = "copied"))
        /\ cm_pc = "returned" =>
               /\ cm_idx = Len(cm_result.matches)
               /\ summary.copied_count = copied
               /\ summary.skipped_files = skipped

\* a missing source, then an unreadable one, then a good one
C14_Witness ==
    /\ cm_pc = "returned"
    /\ Len(summaries) = 1
    /\ summary.skipped_files =
         << "Missing: MAY_01/gone.jpg",
            "Copy failed locked.jpg: [Errno 13] Permission denied" >>
    /\ summary.copied_count = 1
    /\ Len(writes) = 1
    /\ writes[1].image_path = "MAY_01/DSC07452.jpg"

\* C15: the directory output_root/person_name exists once the call has
\* passed mkdir, and output_path is its absolute resolved path, also when
\* nothing was copied.
C15_DirectoryCreatedAndReturned ==
    /\ cm_pc \in {"loop", "returned"} => out_dir.exists
    /\ cm_pc = "returned" =>
        /\ output_root = DefaultOutputRoot =>
               summary.output_path = "/app/results/person_matches/Nguyen Thanh Phong"
        /\ output_root = [absolute |-> TRUE, parts |-> <<"srv", "out">>] =>
               summary.output_path = "/srv/out/Nguyen Thanh Phong"
        /\ output_root = [absolute |-> FALSE, parts |-> <<"..", "out">>] =>
               summary.output_path = "/out/Nguyen Thanh Phong"

\* a result without matches and no directory yet: the directory is created
C15_Witness ==
    /\ cm_pc = "returned"
    /\ cm_result.matches = <<>>
    /\ ~initial_dir.exists
    /\ out_dir.exists
    /\ summary.copied_count = 0
    /\ summary.output_path = "/app/results/person_matches/Nguyen Thanh Phong"

\* identities of the matches the run that returned last has copied
CopiedInLastRun ==
    {writes[i].image_path : i \in {j \in 1..Len(writes) : writes[j].run = Len(summaries)}}

\* positions of the matches that run has not copied
SkippedPositions ==
    {i \in 1..Len(cm_result.matches) :
        cm_result.matches[i].image_path \notin CopiedInLastRun}

\* C27: when copy_matches_to_output has returned, copied_count plus the
\* number of skip entries is the number of matches: the copied matches are
\* counted once each, and every other match has exactly one skip entry, the
\* entries following the order of the matches.
C27_EveryMatchAccountedOnce ==
    cm_pc = "returned" =>
        /\ summary.copied_count + Len(summary.skipped_files) = Len(cm_result.matches)
        /\ summary.copied_count = Cardinality(CopiedInLastRun)
        /\ \A i \in SkippedPositions :
               summary.skipped_files[Cardinality({j \in SkippedPositions : j <= i})]
                   \in {"Missing: " \o cm_result.matches[i].image_path,
                        "Copy failed " \o SourceName(cm_result.matches[i].image_path)
                            \o ": [Errno 13] Permission denied"}

\* an unreadable source, a good one and a missing one: 1 + 2 = 3
C27_Witness ==
    /\ cm_pc = "returned"
    /\ Len(cm_result.matches) = 3
    /\ cm_result.matches[1].image_path = "/legacy/photos/locked.jpg"
    /\ cm_result.matches[2].image_path = "MAY_02/DSC07452.jpg"
    /\ cm_result.matches[3].image_path = "MAY_01/gone.jpg"
    /\ summary.copied_count = 1
    /\ summary.skipped_files =
         << "Copy failed locked.jpg: [Errno 13] Permission denied",
            "Missing: MAY_01/gone.jpg" >>

\* C20: resolve_image_path returns an absolute identity verbatim and
\* otherwise the identity joined to the base directory, which is the
\* directory set by set_photos_base_dir when one was set and the configured
\* event-photos directory otherwise.
C20_ResolveImagePath ==
    /\ photos_base_dir \in {None, "/mnt/archive"}
    /\ \A i \in 1..Len(attempts) :
           /\ attempts[i].image_path = "/legacy/photos/locked.jpg"
                  => attempts[i].source = "/legacy/photos/locked.jpg"
           /\ (attempts[i].image_path # "/legacy/photos/locked.jpg" /\ photos_base_dir = None)
                  => attempts[i].source = "/srv/event_photos/" \o attempts[i].image_path
           /\ (attempts[i].image_path # "/legacy/photos/locked.jpg" /\ photos_base_dir # None)
                  => attempts[i].source = photos_base_dir \o "/" \o attempts[i].image_path

\* with the base directory set to /mnt/archive a relative identity is
\* resolved under it and the absolute identity is unchanged
C20_Witness ==
    /\ photos_base_dir = "/mnt/archive"
    /\ Len(attempts) = 2
    /\ attempts[1].image_path = "MAY_01/gone.jpg"
    /\ attempts[1].source = "/mnt/archive/MAY_01/gone.jpg"
    /\ attempts[2].source = "/legacy/photos/locked.jpg"

(***************************************************************************)
(* The loop of search_person_folder over given per-reference outcomes      *)
(***************************************************************************)
\* what the backend answers for one reference image
MergeBackendAnswers ==
    {<<>>}
    \cup {<<[img_name |-> p, distance |-> d]>> : p \in Identities, d \in {20, 30}}
    \cup { << [img_name |-> "event/photo1.jpg", distance |-> 20],
              [img_name |-> "event/photo2.jpg", distance |-> 20] >>,
           << [img_name |-> "event/photo2.jpg", distance |-> 30],
              [img_name |-> "event/photo1.jpg", distance |-> 20] >> }

\* what self.search(content, limit=limit) does for one reference image
ReferenceOutcomes ==
    {search(faces, rows, ClampLimit(50)) : faces \in {0, 1}, rows \in MergeBackendAnswers}

\* img_path.name of the i-th reference image
ReferenceName(i) == "ref" \o ToString(i) \o ".jpg"

InitMerge ==
    /\ mg_pc = "loop"
    /\ mg_refs \in UNION {[1..n -> ReferenceOutcomes] : n \in 1..MaxEntries}
    /\ mg_idx = 0
    /\ mg_all_matches = <<>>
    /\ mg_errors = <<>>
    /\ mg_result = NoResult
    /\ SearchIdle
    /\ CollectIdle
    /\ CopyIdle
    /\ FaceIdle /\ ConfigIdle /\ RaceIdle /\ CliIdle

\* after the body of the loop for one reference: next iteration or lines
\* 335-347
MergeAfterReference(acc, errs) ==
    /\ mg_idx' = mg_idx + 1
    /\ mg_all_matches' = acc
    /\ mg_errors' = errs
    /\ IF mg_idx + 1 = Len(mg_refs)
         THEN /\ mg_result' = FinalResult("Nguyen Thanh Phong", acc, mg_refs, errs)
              /\ mg_pc' = "done"
         ELSE /\ mg_result' = mg_result
              /\ mg_pc' = "loop"
    /\ UNCHANGED mg_refs
    /\ UNCHANGED <<search_vars, collect_vars, copy_vars, face_vars, config_vars,
                   race_vars, cli_vars>>

\* lines 329-333: self.search raised for this reference
MergeReferenceFails ==
    /\ mg_pc = "loop"
    /\ mg_idx < Len(mg_refs)
    /\ mg_refs[mg_idx + 1].exc # NoError
    /\ MergeAfterReference(mg_all_matches,
           Append(mg_errors, ErrorEntry(ReferenceName(mg_idx + 1),
                                        mg_refs[mg_idx + 1].exc)))

\* lines 322-328: self.search returned, its matches are merged
MergeReferenceSearched ==
    /\ mg_pc = "loop"
    /\ mg_idx < Len(mg_refs)
    /\ mg_refs[mg_idx + 1].exc = NoError
    /\ MergeAfterReference(MergeMatches(mg_all_matches, mg_refs[mg_idx + 1].matches),
                           mg_errors)

NextMerge ==
    \/ MergeReferenceFails
    \/ MergeReferenceSearched

SpecMerge == InitMerge /\ [][NextMerge]_vars

\* all_matches after the loop has run over refs, starting from acc
RECURSIVE MergeReferences(_, _)
MergeReferences(acc, refs) ==
    IF refs = <<>> THEN acc
    ELSE MergeReferences(IF Head(refs).exc = NoError
                           THEN MergeMatches(acc, Head(refs).matches)
                           ELSE acc,
                         Tail(refs))

\* the matches search_person_folder returns for the references taken in
\* the order perm
MatchesInOrder(perm) ==
    SortByConfidence(MergeReferences(<<>>, [i \in 1..Len(mg_refs) |-> mg_refs[perm[i]]]))

\* the (identity, confidence) pairs of a list of matches
IdentityConfidencePairs(ms) ==
    {[image_path |-> ms[k].image_path, confidence |-> ms[k].confidence] :
        k \in 1..Len(ms)}

\* C22: for every permutation of the reference images with the same
\* per-reference outcomes the result has the same (identity, confidence)
\* pairs and the same confidences position by position; only the order of
\* matches of equal confidence may differ.
C22_MergeOrderInsensitive ==
    mg_pc = "done" =>
        \A perm \in Permutations(1..Len(mg_refs)) :
            /\ IdentityConfidencePairs(MatchesInOrder(perm))
                   = IdentityConfidencePairs(mg_result.matches)
            /\ Len(MatchesInOrder(perm)) = Len(mg_result.matches)
            /\ \A k \in 1..Len(mg_result.matches) :
                   MatchesInOrder(perm)[k].confidence = mg_result.matches[k].confidence

\* photo1 at 0.80, photo2 at 0.80, photo1 again at 0.70: the result is
\* photo1, photo2, and with the first two references swapped the same two
\* pairs come out in the other order
C22_Witness ==
    /\ mg_pc = "done"
    /\ Len(mg_refs) = 3
    /\ mg_refs[1].matches = <<[image_path |-> "event/photo1.jpg", distance |-> 20, confidence |-> 80]>>
    /\ mg_refs[2].matches = <<[image_path |-> "event/photo2.jpg", distance |-> 20, confidence |-> 80]>>
    /\ mg_refs[3].matches = <<[image_path |-> "event/photo1.jpg", distance |-> 30, confidence |-> 70]>>
    /\ mg_result.matches =
         << [image_path |-> "event/photo1.jpg", distance |-> 20, confidence |-> 80],
            [image_path |-> "event/photo2.jpg", distance |-> 20, confidence |-> 80] >>
    /\ \E perm \in Permutations(1..3) : MatchesInOrder(perm) # mg_result.matches

(***************************************************************************)
(* FaceService.search called on its own                                    *)
(***************************************************************************)
\* values of limit: the CLI passes --limit through unchanged
SearchLimits == {0, 1, 10}

\* query images: bytes PIL cannot decode, or a picture with some faces
QueryImages == {NoImage} \cup [ok : {TRUE}, faces : 0..MaxFaces]

\* Image.open failing in preprocess_image
ImageError == [type |-> "UnidentifiedImageError", msg |-> "cannot identify image file"]

\* Path(temp_dir) / f"{uuid.uuid4()}.jpg" of the n-th call
TempPath(n) == "tmp/uploads/uuid" \o ToString(n) \o ".jpg"

InitFace ==
    /\ FaceIdle
    /\ SearchIdle
    /\ CollectIdle
    /\ CopyIdle
    /\ ConfigIdle /\ RaceIdle /\ MergeIdle /\ CliIdle

\* the call has not started yet
SearchMayStart == fs_pc = "idle"

\* line 135: preprocess_image raises on bytes that are no image; nothing
\* was written yet
SearchPreprocessFails ==
    /\ SearchMayStart
    /\ fs_image' = NoImage
    /\ \E lim \in SearchLimits : fs_limit' = lim
    /\ fs_rows' = <<>>
    /\ fs_calls' = fs_calls + 1
    /\ fs_temp_path' = None
    /\ fs_matches' = <<>>
    /\ backend_calls' = <<>>
    /\ fs_exc' = ImageError
    /\ fs_pc' = "raised"
    /\ UNCHANGED temp_files
    /\ UNCHANGED <<search_vars, collect_vars, copy_vars, config_vars, race_vars,
                   merge_vars, cli_vars>>

\* lines 135-136: the image is preprocessed and written to a temp file
SearchSaveTemp ==
    /\ SearchMayStart
    /\ \E img \in QueryImages \ {NoImage}, rows \in SeqsUpTo(BackendRows, MaxRows),
          lim \in SearchLimits :
         /\ fs_image' = img
         /\ fs_rows' = rows
         /\ fs_limit' = lim
    /\ fs_calls' = fs_calls + 1
    /\ fs_temp_path' = TempPath(fs_calls + 1)
    /\ temp_files' = temp_files \cup {TempPath(fs_calls + 1)}
    /\ fs_matches' = <<>>
    /\ backend_calls' = <<>>
    /\ fs_exc' = NoError
    /\ fs_pc' = "validate"
    /\ UNCHANGED <<search_vars, collect_vars, copy_vars, config_vars, race_vars,
                   merge_vars, cli_vars>>

\* the finally clause, line 171: temp_path.unlink(missing_ok=True)
Unlink(files, path) == files \ {path}

\* line 139 raises: the exception leaves search through the finally clause
SearchValidateRaises ==
    /\ fs_pc = "validate"
    /\ validate_single_face(fs_image.faces) # NoError
    /\ fs_exc' = validate_single_face(fs_image.faces)
    /\ temp_files' = Unlink(temp_files, fs_temp_path)
    /\ fs_pc' = "raised"
    /\ UNCHANGED <<fs_image, fs_rows, fs_limit, fs_temp_path, fs_matches, fs_calls,
                   backend_calls>>
    /\ UNCHANGED <<search_vars, collect_vars, copy_vars, config_vars, race_vars,
                   merge_vars, cli_vars>>

\* line 139 returns: exactly one face
SearchValidated ==
    /\ fs_pc = "validate"
    /\ validate_single_face(fs_image.faces) = NoError
    /\ fs_pc' = "backend"
    /\ UNCHANGED <<fs_image, fs_rows, fs_limit, fs_temp_path, temp_files, fs_matches,
                   fs_exc, fs_calls, backend_calls>>
    /\ UNCHANGED <<search_vars, collect_vars, copy_vars, config_vars, race_vars,
                   merge_vars, cli_vars>>

\* variant of SearchBackendFails: the temp file is removed on the success
\* path only
SearchBackendFailsNoFinally ==
    /\ fs_pc = "backend"
    /\ backend_calls' = Append(backend_calls, [img |-> fs_temp_path, k |-> fs_limit])
    /\ fs_exc' = BackendError
    /\ fs_pc' = "raised"
    /\ UNCHANGED <<fs_image, fs_rows, fs_limit, fs_temp_path, temp_files, fs_matches,
                   fs_calls>>
    /\ UNCHANGED <<search_vars, collect_vars, copy_vars, config_vars, race_vars,
                   merge_vars, cli_vars>>

\* lines 143-154: DeepFace.search raises
SearchBackendFails ==
    /\ fs_pc = "backend"
    /\ backend_calls' = Append(backend_calls, [img |-> fs_temp_path, k |-> fs_limit])
    /\ fs_exc' = BackendError
    /\ temp_files' = Unlink(temp_files, fs_temp_path)
    /\ fs_pc' = "raised"
    /\ UNCHANGED <<fs_image, fs_rows, fs_limit, fs_temp_path, fs_matches, fs_calls>>
    /\ UNCHANGED <<search_vars, collect_vars, copy_vars, config_vars, race_vars,
                   merge_vars, cli_vars>>

\* lines 143-171: DeepFace.search answers, the rows are filtered, sorted
\* and cut, and the temp file is removed
SearchBackendAnswers ==
    /\ fs_pc = "backend"
    /\ backend_calls' = Append(backend_calls, [img |-> fs_temp_path, k |-> fs_limit])
    /\ fs_matches' = search(fs_image.faces, fs_rows, fs_limit).matches
    /\ temp_files' = Unlink(temp_files, fs_temp_path)
    /\ fs_pc' = "returned"
    /\ UNCHANGED <<fs_image, fs_rows, fs_limit, fs_temp_path, fs_exc, fs_calls>>
    /\ UNCHANGED <<search_vars, collect_vars, copy_vars, config_vars, race_vars,
                   merge_vars, cli_vars>>

NextFace ==
    \/ SearchPreprocessFails
    \/ SearchSaveTemp
    \/ SearchValidateRaises
    \/ SearchValidated
    \/ SearchBackendFails
    \/ SearchBackendAnswers

SpecFace == InitFace /\ [][NextFace]_vars

\* C23: the backend is queried only for an image validated to hold exactly
\* one face: with no face search raises NoFaceDetectedError, with n > 1
\* faces MultipleFacesError carrying n, and DeepFace.search was not called.
C23_BackendOnlyAfterSingleFace ==
    /\ fs_pc = "backend" => fs_image.faces = 1
    /\ backend_calls # <<>> =>
           /\ fs_image.faces = 1
           /\ Len(backend_calls) = 1
           /\ backend_calls[1].img = fs_temp_path
    /\ (fs_pc = "raised" /\ fs_image.ok /\ fs_image.faces = 0) =>
           /\ fs_exc.type = "NoFaceDetectedError"
           /\ backend_calls = <<>>
    /\ (fs_pc = "raised" /\ fs_image.ok /\ fs_image.faces > 1) =>
           /\ fs_exc.type = "MultipleFacesError"
           /\ fs_exc.count = fs_image.faces
           /\ backend_calls = <<>>
    /\ fs_pc = "returned" => Len(backend_calls) = 1

\* an image with two faces: MultipleFacesError(2), no backend call
C23_Witness ==
    /\ fs_pc = "raised"
    /\ fs_image = [ok |-> TRUE, faces |-> 2]
    /\ fs_exc.type = "MultipleFacesError"
    /\ fs_exc.count = 2
    /\ backend_calls = <<>>

\* C24: every match search returns has distance <= threshold and
\* confidence max(0, 1 - distance) and comes from a row of the backend; the
\* list is in non-decreasing order of distance and has at most limit
\* entries.
C24_SearchResultShape ==
    fs_pc = "returned" =>
        /\ Len(fs_matches) <= fs_limit
        /\ \A i \in 1..Len(fs_matches) :
               /\ fs_matches[i].distance <= Threshold
               /\ fs_matches[i].confidence =
                      (IF 100 - fs_matches[i].distance > 0
                         THEN 100 - fs_matches[i].distance ELSE 0)
               /\ \E k \in 1..Len(fs_rows) :
                      /\ fs_rows[k].img_name = fs_matches[i].image_path
                      /\ fs_rows[k].distance = fs_matches[i].distance
        /\ \A i, j \in 1..Len(fs_matches) :
               i < j => fs_matches[i].distance <= fs_matches[j].distance

\* rows at 0.30 and 0.20 with limit 1: the nearer one is returned
C24_Witness ==
    /\ fs_pc = "returned"
    /\ fs_limit = 1
    /\ fs_rows = << [img_name |-> "event/photo1.jpg", distance |-> 30],
                    [img_name |-> "event/photo2.jpg", distance |-> 20] >>
    /\ fs_matches = <<[image_path |-> "event/photo2.jpg", distance |-> 20,
                       confidence |-> 80]>>

\* C29: when search has returned or raised, the temp file it wrote is gone
\* and ./tmp/uploads holds no file, whether validation failed, the backend
\* failed or the search succeeded.
C29_NoTempFileLeft ==
    /\ fs_pc \in {"validate", "backend"} => temp_files = {fs_temp_path}
    /\ fs_pc \in {"idle", "returned", "raised"} => temp_files = {}

\* the backend search failed: the temp file of the call is removed
C29_Witness ==
    /\ fs_pc = "raised"
    /\ fs_calls = 1
    /\ fs_temp_path = "tmp/uploads/uuid1.jpg"
    /\ fs_exc = BackendError
    /\ Len(backend_calls) = 1
    /\ temp_files = {}

(***************************************************************************)
(* load_config and get_config called from several threads                  *)
(***************************************************************************)
\* the default of load_config's parameter path, and another file
DefaultConfigPath == "config/config.yaml"
ConfigPaths == {DefaultConfigPath, "deploy/other.yaml"}

\* the dict built at line 35 by the n-th open(): its identity, the file it
\* was read from, and whether database.port was converted to int yet
ConfigObject(n, path) == [id |-> n, path |-> path, port_is_int |-> FALSE]

InitConfig ==
    /\ ConfigIdle
    /\ SearchIdle
    /\ CollectIdle
    /\ CopyIdle
    /\ FaceIdle /\ RaceIdle /\ MergeIdle /\ CliIdle

\* the call of thread t ends: its return value or its exception is noted
ConfigCallEnds(t, fn, path, raised, value) ==
    /\ cfg_returns' = cfg_returns \cup
                        {[thread |-> t, fn |-> fn, path |-> path,
                          raised |-> raised, value |-> value]}
    /\ cfg_pc' = [cfg_pc EXCEPT ![t] = "idle"]

\* thread t calls load_config(path) and arrives at `with _config_lock`
CallLoadConfig(t) ==
    /\ cfg_pc[t] = "idle"
    /\ cfg_calls < MaxConfigCalls
    /\ \E p \in ConfigPaths : cfg_path' = [cfg_path EXCEPT ![t] = p]
    /\ cfg_fn' = [cfg_fn EXCEPT ![t] = "load_config"]
    /\ cfg_calls' = cfg_calls + 1
    /\ cfg_pc' = [cfg_pc EXCEPT ![t] = "acquire"]
    /\ UNCHANGED <<config, config_lock, file_reads, cfg_returns>>
    /\ UNCHANGED <<search_vars, collect_vars, copy_vars, face_vars, race_vars,
                   merge_vars, cli_vars>>

\* line 44 with _config set: get_config returns it without the lock
GetConfigLoaded(t) ==
    /\ cfg_pc[t] = "idle"
    /\ cfg_calls < MaxConfigCalls
    /\ config # NoResult
    /\ cfg_calls' = cfg_calls + 1
    /\ ConfigCallEnds(t, "get_config", None, FALSE, config.id)
    /\ UNCHANGED <<config, config_lock, cfg_fn, cfg_path, file_reads>>
    /\ UNCHANGED <<search_vars, collect_vars, copy_vars, face_vars, race_vars,
                   merge_vars, cli_vars>>

\* line 44 with _config None: get_config calls load_config()
GetConfigCallsLoad(t) ==
    /\ cfg_pc[t] = "idle"
    /\ cfg_calls < MaxConfigCalls
    /\ config = NoResult
    /\ cfg_path' = [cfg_path EXCEPT ![t] = DefaultConfigPath]
    /\ cfg_fn' = [cfg_fn EXCEPT ![t] = "get_config"]
    /\ cfg_calls' = cfg_calls + 1
    /\ cfg_pc' = [cfg_pc EXCEPT ![t] = "acquire"]
    /\ UNCHANGED <<config, config_lock, file_reads, cfg_returns>>
    /\ UNCHANGED <<search_vars, collect_vars, copy_vars, face_vars, race_vars,
                   merge_vars, cli_vars>>

\* variant of AcquireLock: the with statement does not wait for the lock
AcquireLockNoWait(t) ==
    /\ cfg_pc[t] = "acquire"
    /\ config_lock' = t
    /\ cfg_pc' = [cfg_pc EXCEPT ![t] = "check"]
    /\ UNCHANGED <<config, cfg_fn, cfg_path, cfg_calls, file_reads, cfg_returns>>
    /\ UNCHANGED <<search_vars, collect_vars, copy_vars, face_vars, race_vars,
                   merge_vars, cli_vars>>

\* line 31: `with _config_lock` enters once the lock is free
AcquireLock(t) ==
    /\ cfg_pc[t] = "acquire"
    /\ config_lock = 0
    /\ config_lock' = t
    /\ cfg_pc' = [cfg_pc EXCEPT ![t] = "check"]
    /\ UNCHANGED <<config, cfg_fn, cfg_path, cfg_calls, file_reads, cfg_returns>>
    /\ UNCHANGED <<search_vars, collect_vars, copy_vars, face_vars, race_vars,
                   merge_vars, cli_vars>>

\* line 32 with _config set: the with block is left at once
AlreadyLoaded(t) ==
    /\ cfg_pc[t] = "check"
    /\ config # NoResult
    /\ config_lock' = 0
    /\ cfg_pc' = [cfg_pc EXCEPT ![t] = "return"]
    /\ UNCHANGED <<config, cfg_fn, cfg_path, cfg_calls, file_reads, cfg_returns>>
    /\ UNCHANGED <<search_vars, collect_vars, copy_vars, face_vars, race_vars,
                   merge_vars, cli_vars>>

\* lines 33-34 raise (no such file, invalid YAML): the with statement
\* releases the lock and the exception leaves load_config
ReadConfigFails(t) ==
    /\ cfg_pc[t] = "check"
    /\ config = NoResult
    /\ file_reads' = Append(file_reads, [thread |-> t, path |-> cfg_path[t], ok |-> FALSE])
    /\ config_lock' = 0
    /\ ConfigCallEnds(t, cfg_fn[t], cfg_path[t], TRUE, NoInt)
    /\ UNCHANGED <<config, cfg_fn, cfg_path, cfg_calls>>
    /\ UNCHANGED <<search_vars, collect_vars, copy_vars, face_vars, race_vars,
                   merge_vars, cli_vars>>

\* lines 33-35: the file is read and parsed, _config is assigned
ReadConfig(t) ==
    /\ cfg_pc[t] = "check"
    /\ config = NoResult
    /\ file_reads' = Append(file_reads, [thread |-> t, path |-> cfg_path[t], ok |-> TRUE])
    /\ config' = ConfigObject(Len(file_reads) + 1, cfg_path[t])
    /\ cfg_pc' = [cfg_pc EXCEPT ![t] = "convert"]
    /\ UNCHANGED <<config_lock, cfg_fn, cfg_path, cfg_calls, cfg_returns>>
    /\ UNCHANGED <<search_vars, collect_vars, copy_vars, face_vars, race_vars,
                   merge_vars, cli_vars>>

\* lines 37-38: the port is converted in place, the lock is released
ConvertPort(t) ==
    /\ cfg_pc[t] = "convert"
    /\ config' = [config EXCEPT !.port_is_int = TRUE]
    /\ config_lock' = 0
    /\ cfg_pc' = [cfg_pc EXCEPT ![t] = "return"]
    /\ UNCHANGED <<cfg_fn, cfg_path, cfg_calls, file_reads, cfg_returns>>
    /\ UNCHANGED <<search_vars, collect_vars, copy_vars, face_vars, race_vars,
                   merge_vars, cli_vars>>

\* line 38: int() raises on a port that is no number; _config stays
\* assigned, the lock is released, the exception leaves load_config
ConvertPortFails(t) ==
    /\ cfg_pc[t] = "convert"
    /\ config_lock' = 0
    /\ ConfigCallEnds(t, cfg_fn[t], cfg_path[t], TRUE, NoInt)
    /\ UNCHANGED <<config, cfg_fn, cfg_path, cfg_calls, file_reads>>
    /\ UNCHANGED <<search_vars, collect_vars, copy_vars, face_vars, race_vars,
                   merge_vars, cli_vars>>

\* line 39: return _config, read after the lock was released
ReturnConfig(t) ==
    /\ cfg_pc[t] = "return"
    /\ ConfigCallEnds(t, cfg_fn[t], cfg_path[t], FALSE, config.id)
    /\ UNCHANGED <<config, config_lock, cfg_fn, cfg_path, cfg_calls, file_reads>>
    /\ UNCHANGED <<search_vars, collect_vars, copy_vars, face_vars, race_vars,
                   merge_vars, cli_vars>>

NextConfig ==
    \E t \in Threads :
        \/ CallLoadConfig(t)
        \/ GetConfigLoaded(t)
        \/ GetConfigCallsLoad(t)
        \/ AcquireLock(t)
        \/ AlreadyLoaded(t)
        \/ ReadConfigFails(t)
        \/ ReadConfig(t)
        \/ ConvertPort(t)
        \/ ConvertPortFails(t)
        \/ ReturnConfig(t)

SpecConfig == InitConfig /\ [][NextConfig]_vars

\* C25: under every interleaving at most one open() succeeds and none
\* follows it, every call that returns returns the one configuration
\* object, which was read from the path of that open(), so a later
\* load_config with another path returns it without reading its path; only
\* the holder of the lock is between lines 32 and 38.
C25_ConfigLoadedOnce ==
    /\ \A i \in 1..Len(file_reads) : file_reads[i].ok => i = Len(file_reads)
    /\ config = NoResult <=> (\A i \in 1..Len(file_reads) : ~file_reads[i].ok)
    /\ config # NoResult =>
           /\ config.id = Len(file_reads)
           /\ config.path = file_reads[Len(file_reads)].path
    /\ \A r \in cfg_returns :
           ~r.raised =>
               /\ config # NoResult
               /\ r.value = config.id
    /\ \A t \in Threads : cfg_pc[t] \in {"check", "convert"} => config_lock = t

\* thread 1 loaded the default file; thread 2, waiting for the lock with
\* another path meanwhile, got the same object and its file was never read
C25_Witness ==
    /\ file_reads = <<[thread |-> 1, path |-> "config/config.yaml", ok |-> TRUE]>>
    /\ cfg_returns =
         { [thread |-> 2, fn |-> "load_config", path |-> "deploy/other.yaml",
            raised |-> FALSE, value |-> 1],
           [thread |-> 1, fn |-> "load_config", path |-> "config/config.yaml",
            raised |-> FALSE, value |-> 1] }
    /\ config = [id |-> 1, path |-> "config/config.yaml", port_is_int |-> TRUE]

(***************************************************************************)
(* Two copy_matches_to_output calls on the same person directory           *)
(***************************************************************************)
InitRace ==
    /\ rc_pc = [r \in Racers |-> "idle"]
    /\ rc_result \in CopyResults
    /\ rc_idx = [r \in Racers |-> 0]
    /\ rc_dest = [r \in Racers |-> None]
    /\ rc_dir \in {AbsentDir, [exists |-> TRUE, files |-> {}]}
    /\ rc_copied = [r \in Racers |-> 0]
    /\ rc_skipped = [r \in Racers |-> <<>>]
    /\ rc_writes = <<>>
    /\ SearchIdle
    /\ CollectIdle
    /\ CopyIdle
    /\ FaceIdle /\ ConfigIdle /\ MergeIdle /\ CliIdle

\* the match call r is at, and its resolved source path
RaceMatch(r) == rc_result.matches[rc_idx[r] + 1]
RaceSource(r) == resolve_image_path(RaceMatch(r).image_path, None)

\* where call r stands after the body of the loop for one match
RaceAfterMatch(r) ==
    IF rc_idx[r] + 1 = Len(rc_result.matches) THEN "returned" ELSE "loop"

\* lines 374-383 of call r: the directory is made, the loop is entered
RaceStart(r) ==
    /\ rc_pc[r] = "idle"
    /\ rc_dir' = [rc_dir EXCEPT !.exists = TRUE]
    /\ rc_pc' = [rc_pc EXCEPT ![r] = IF rc_result.matches = <<>> THEN "returned"
                                    ELSE "loop"]
    /\ UNCHANGED <<rc_result, rc_idx, rc_dest, rc_copied, rc_skipped, rc_writes>>
    /\ UNCHANGED <<search_vars, collect_vars, copy_vars, face_vars, config_vars,
                   merge_vars, cli_vars>>

\* lines 385-390 of call r: the source does not exist
RaceMissing(r) ==
    /\ rc_pc[r] = "loop"
    /\ ~SourceExists(RaceSource(r))
    /\ rc_skipped' = [rc_skipped EXCEPT ![r] =
                         Append(@, "Missing: " \o RaceMatch(r).image_path)]
    /\ rc_idx' = [rc_idx EXCEPT ![r] = @ + 1]
    /\ rc_pc' = [rc_pc EXCEPT ![r] = RaceAfterMatch(r)]
    /\ UNCHANGED <<rc_result, rc_dest, rc_dir, rc_copied, rc_writes>>
    /\ UNCHANGED <<search_vars, collect_vars, copy_vars, face_vars, config_vars,
                   merge_vars, cli_vars>>

\* line 392 of call r: _get_unique_filename looks at the directory as it is
\* now and returns a free name
RaceChooseName(r) ==
    /\ rc_pc[r] = "loop"
    /\ SourceExists(RaceSource(r))
    /\ rc_dest' = [rc_dest EXCEPT ![r] =
                      get_unique_filename(rc_dir.files,
                                          SourceName(RaceMatch(r).image_path))]
    /\ rc_pc' = [rc_pc EXCEPT ![r] = "copy"]
    /\ UNCHANGED <<rc_result, rc_idx, rc_dir, rc_copied, rc_skipped, rc_writes>>
    /\ UNCHANGED <<search_vars, collect_vars, copy_vars, face_vars, config_vars,
                   merge_vars, cli_vars>>

\* lines 394-396 of call r: shutil.copy2 writes dest_path, replacing what
\* is there by now
RaceCopy(r) ==
    /\ rc_pc[r] = "copy"
    /\ SourceReadable(RaceSource(r))
    /\ rc_dir' = [rc_dir EXCEPT !.files = CopyInto(@, rc_dest[r], RaceSource(r))]
    /\ rc_writes' = Append(rc_writes,
                       [run |-> r, image_path |-> RaceMatch(r).image_path,
                        name |-> rc_dest[r], content |-> RaceSource(r)])
    /\ rc_copied' = [rc_copied EXCEPT ![r] = @ + 1]
    /\ rc_idx' = [rc_idx EXCEPT ![r] = @ + 1]
    /\ rc_dest' = [rc_dest EXCEPT ![r] = None]
    /\ rc_pc' = [rc_pc EXCEPT ![r] = RaceAfterMatch(r)]
    /\ UNCHANGED <<rc_result, rc_skipped>>
    /\ UNCHANGED <<search_vars, collect_vars, copy_vars, face_vars, config_vars,
                   merge_vars, cli_vars>>

\* lines 394-398 of call r: shutil.copy2 raises on reading the source
RaceCopyFails(r) ==
    /\ rc_pc[r] = "copy"
    /\ ~SourceReadable(RaceSource(r))
    /\ rc_skipped' = [rc_skipped EXCEPT ![r] =
                         Append(@, "Copy failed " \o SourceName(RaceMatch(r).image_path)
                                       \o ": " \o ReadError.msg)]
    /\ rc_idx' = [rc_idx EXCEPT ![r] = @ + 1]
    /\ rc_dest' = [rc_dest EXCEPT ![r] = None]
    /\ rc_pc' = [rc_pc EXCEPT ![r] = RaceAfterMatch(r)]
    /\ UNCHANGED <<rc_result, rc_dir, rc_copied, rc_writes>>
    /\ UNCHANGED <<search_vars, collect_vars, copy_vars, face_vars, config_vars,
                   merge_vars, cli_vars>>

NextRace ==
    \E r \in Racers :
        \/ RaceStart(r)
        \/ RaceMissing(r)
        \/ RaceChooseName(r)
        \/ RaceCopy(r)
        \/ RaceCopyFails(r)

SpecRace == InitRace /\ [][NextRace]_vars

\* C26 as claimed: when two calls interleave, every successful copy lands
\* on a path no other copy wrote, and every file written is still in the
\* directory with its content.
C26_NoCopyOverwritesAnother ==
    /\ \A i, j \in 1..Len(rc_writes) :
           i # j => rc_writes[i].name # rc_writes[j].name
    /\ \A i \in 1..Len(rc_writes) :
           [name |-> rc_writes[i].name, content |-> rc_writes[i].content]
               \in rc_dir.files

(***************************************************************************)
(* The CLI command search                                                  *)
(***************************************************************************)
\* command lines: IMAGE_PATH naming an existing directory or file (click
\* checks exists=True), --limit (default 10), --db-path, --open, --debug
CliArgs ==
    [kind : {"dir"}, image_path : {"people/Nguyen_Thanh_Phong"}, limit : {10, 50},
     db_path : {None} \cup BaseDirArgs, open_results : BOOLEAN, debug : BOOLEAN]
    \cup
    [kind : {"file"}, image_path : {"query.jpg"}, limit : {10, 50},
     db_path : {None} \cup BaseDirArgs, open_results : BOOLEAN, debug : BOOLEAN]

\* results search_person_folder hands back to the command
CliResults ==
    { EmptyResult("Nguyen Thanh Phong"),
      PersonSearchResult("Nguyen Thanh Phong", <<>>, 1, <<"No face: ref1.jpg">>),
      PersonSearchResult("Nguyen Thanh Phong", <<>>, 1, <<>>),
      PersonSearchResult("Nguyen Thanh Phong",
          <<[image_path |-> "event/photo1.jpg", distance |-> 20, confidence |-> 80]>>,
          1, <<>>),
      PersonSearchResult("Nguyen Thanh Phong",
          << [image_path |-> "event/photo1.jpg", distance |-> 20, confidence |-> 80],
             [image_path |-> "event/photo2.jpg", distance |-> 30, confidence |-> 70] >>,
          2, <<"No face: ref1.jpg">>) }

\* a call of a FaceService method, noted in cli_calls
ServiceCall(fn, arg, lim) == [fn |-> fn, arg |-> arg, limit |-> lim]

InitCli ==
    /\ CliIdle
    /\ SearchIdle
    /\ CollectIdle
    /\ CopyIdle
    /\ FaceIdle /\ ConfigIdle /\ RaceIdle /\ MergeIdle

\* lines 154-158: the service is made, --db-path sets the base directory
CliInvoke ==
    /\ cli_pc = "idle"
    /\ \E a \in CliArgs :
         /\ cli_args' = a
         /\ IF a.db_path # None
              THEN /\ cli_base_dir' = set_photos_base_dir(a.db_path)
                   /\ cli_calls' = <<ServiceCall("set_photos_base_dir", a.db_path, NoInt)>>
              ELSE UNCHANGED <<cli_base_dir, cli_calls>>
    /\ cli_pc' = "dispatch"
    /\ UNCHANGED <<cli_result, cli_mkdirs, cli_err, cli_exc>>
    /\ UNCHANGED <<search_vars, collect_vars, copy_vars, face_vars, config_vars,
                   race_vars, merge_vars>>

\* variant of DispatchFolder: the command always takes the single-image path
DispatchFolderAsFile ==
    /\ cli_pc = "dispatch"
    /\ cli_args.kind = "dir"
    /\ cli_pc' = "single"
    /\ UNCHANGED <<cli_args, cli_base_dir, cli_result, cli_calls, cli_mkdirs, cli_err,
                   cli_exc>>
    /\ UNCHANGED <<search_vars, collect_vars, copy_vars, face_vars, config_vars,
                   race_vars, merge_vars>>

\* lines 161-162: input_path.is_dir()
DispatchFolder ==
    /\ cli_pc = "dispatch"
    /\ cli_args.kind = "dir"
    /\ cli_pc' = "folder"
    /\ UNCHANGED <<cli_args, cli_base_dir, cli_result, cli_calls, cli_mkdirs, cli_err,
                   cli_exc>>
    /\ UNCHANGED <<search_vars, collect_vars, copy_vars, face_vars, config_vars,
                   race_vars, merge_vars>>

\* lines 163-164: anything else is a single image
DispatchFile ==
    /\ cli_pc = "dispatch"
    /\ cli_args.kind # "dir"
    /\ cli_pc' = "single"
    /\ UNCHANGED <<cli_args, cli_base_dir, cli_result, cli_calls, cli_mkdirs, cli_err,
                   cli_exc>>
    /\ UNCHANGED <<search_vars, collect_vars, copy_vars, face_vars, config_vars,
                   race_vars, merge_vars>>

\* the call at line 107
FolderSearchCall ==
    ServiceCall("search_person_folder", cli_args.image_path, cli_args.limit)

\* lines 106-110: search_person_folder raises ValueError, the command
\* reports it and returns
FolderRejected ==
    /\ cli_pc = "folder"
    /\ cli_calls' = Append(cli_calls, FolderSearchCall)
    /\ cli_err' = Append(cli_err, "Error: Folder path not under allowed directories")
    /\ cli_pc' = "done"
    /\ UNCHANGED <<cli_args, cli_base_dir, cli_result, cli_mkdirs, cli_exc>>
    /\ UNCHANGED <<search_vars, collect_vars, copy_vars, face_vars, config_vars,
                   race_vars, merge_vars>>

\* line 107: search_person_folder raises something else (the OSError of
\* iterdir), which the except clause does not catch
FolderSearchCrashes ==
    /\ cli_pc = "folder"
    /\ cli_calls' = Append(cli_calls, FolderSearchCall)
    /\ cli_exc' = [type |-> "OSError", msg |-> "[Errno 13] Permission denied"]
    /\ cli_pc' = "crashed"
    /\ UNCHANGED <<cli_args, cli_base_dir, cli_result, cli_mkdirs, cli_err>>
    /\ UNCHANGED <<search_vars, collect_vars, copy_vars, face_vars, config_vars,
                   race_vars, merge_vars>>

\* variant of FolderSearched: the command copies whatever the result holds
FolderSearchedAlwaysCopies ==
    /\ cli_pc = "folder"
    /\ cli_calls' = Append(cli_calls, FolderSearchCall)
    /\ \E res \in CliResults : cli_result' = res
    /\ cli_pc' = "copy"
    /\ UNCHANGED <<cli_args, cli_base_dir, cli_mkdirs, cli_err, cli_exc>>
    /\ UNCHANGED <<search_vars, collect_vars, copy_vars, face_vars, config_vars,
                   race_vars, merge_vars>>

\* lines 107-123: search_person_folder returns; without matches the
\* command prints "No matches found." and returns
FolderSearched ==
    /\ cli_pc = "folder"
    /\ cli_calls' = Append(cli_calls, FolderSearchCall)
    /\ \E res \in CliResults :
         /\ cli_result' = res
         /\ cli_pc' = IF res.matches = <<>> THEN "done" ELSE "copy"
    /\ UNCHANGED <<cli_args, cli_base_dir, cli_mkdirs, cli_err, cli_exc>>
    /\ UNCHANGED <<search_vars, collect_vars, copy_vars, face_vars, config_vars,
                   race_vars, merge_vars>>

\* lines 125-139: copy_matches_to_output makes the person's directory and
\* copies; the folder is opened when --open was given and a file was copied
FolderCopy ==
    /\ cli_pc = "copy"
    /\ \E n \in 0..Len(cli_result.matches) :
         cli_calls' =
             Append(cli_calls, ServiceCall("copy_matches_to_output",
                                           cli_result.person_name, NoInt))
             \o (IF cli_args.open_results /\ n > 0
                   THEN <<ServiceCall("open_path", cli_result.person_name, NoInt)>>
                   ELSE <<>>)
    /\ cli_mkdirs' = cli_mkdirs + 1
    /\ cli_pc' = "done"
    /\ UNCHANGED <<cli_args, cli_base_dir, cli_result, cli_err, cli_exc>>
    /\ UNCHANGED <<search_vars, collect_vars, copy_vars, face_vars, config_vars,
                   race_vars, merge_vars>>

\* the call at line 65 or 67
SingleSearchCall ==
    ServiceCall(IF cli_args.debug THEN "search_with_debug" ELSE "search",
                cli_args.image_path, cli_args.limit)

\* lines 58-89: the search returns and the matches are printed
SingleSearched ==
    /\ cli_pc = "single"
    /\ cli_calls' = Append(cli_calls, SingleSearchCall)
    /\ cli_pc' = "done"
    /\ UNCHANGED <<cli_args, cli_base_dir, cli_result, cli_mkdirs, cli_err, cli_exc>>
    /\ UNCHANGED <<search_vars, collect_vars, copy_vars, face_vars, config_vars,
                   race_vars, merge_vars>>

\* lines 91-94: NoFaceDetectedError or MultipleFacesError is reported
SingleSearchRejected ==
    /\ cli_pc = "single"
    /\ cli_calls' = Append(cli_calls, SingleSearchCall)
    /\ \E e \in {validate_single_face(n) : n \in (0..MaxFaces) \ {1}} :
         cli_err' = Append(cli_err, "Error: " \o e.msg)
    /\ cli_pc' = "done"
    /\ UNCHANGED <<cli_args, cli_base_dir, cli_result, cli_mkdirs, cli_exc>>
    /\ UNCHANGED <<search_vars, collect_vars, copy_vars, face_vars, config_vars,
                   race_vars, merge_vars>>

\* lines 65-67: the search raises something else (the backend), which
\* leaves the command
SingleSearchCrashes ==
    /\ cli_pc = "single"
    /\ cli_calls' = Append(cli_calls, SingleSearchCall)
    /\ cli_exc' = BackendError
    /\ cli_pc' = "crashed"
    /\ UNCHANGED <<cli_args, cli_base_dir, cli_result, cli_mkdirs, cli_err>>
    /\ UNCHANGED <<search_vars, collect_vars, copy_vars, face_vars, config_vars,
                   race_vars, merge_vars>>

NextCli ==
    \/ CliInvoke
    \/ DispatchFolder
    \/ DispatchFile
    \/ FolderRejected
    \/ FolderSearchCrashes
    \/ FolderSearched
    \/ FolderCopy
    \/ SingleSearched
    \/ SingleSearchRejected
    \/ SingleSearchCrashes

SpecCli == InitCli /\ [][NextCli]_vars

\* the calls of the given methods the command has made
CallsOf(fns) == SelectSeq(cli_calls, LAMBDA c : c.fn \in fns)

\* C21: for a directory the command calls search_person_folder exactly
\* once, with the path and the --limit value, and no single-image search;
\* for a file it calls search (search_with_debug under --debug) exactly
\* once and never search_person_folder.
C21_DispatchOnInputPath ==
    /\ cli_args.kind = "dir" =>
           /\ CallsOf({"search", "search_with_debug"}) = <<>>
           /\ Len(CallsOf({"search_person_folder"})) =
                  (IF cli_pc \in {"copy", "done", "crashed"} THEN 1 ELSE 0)
           /\ \A i \in 1..Len(cli_calls) :
                  cli_calls[i].fn = "search_person_folder" =>
                      /\ cli_calls[i].limit = cli_args.limit
                      /\ cli_calls[i].arg = cli_args.image_path
    /\ cli_args.kind = "file" =>
           /\ CallsOf({"search_person_folder", "copy_matches_to_output"}) = <<>>
           /\ Len(CallsOf({"search", "search_with_debug"})) =
                  (IF cli_pc \in {"done", "crashed"} THEN 1 ELSE 0)
           /\ \A i \in 1..Len(cli_calls) :
                  cli_calls[i].fn \in {"search", "search_with_debug"} =>
                      cli_calls[i].limit = cli_args.limit

\* search people/Nguyen_Thanh_Phong --limit 50: one folder search with
\* limit 50, then the copy
C21_Witness ==
    /\ cli_pc = "done"
    /\ cli_args.kind = "dir"
    /\ cli_args.limit = 50
    /\ cli_args.db_path = None
    /\ cli_calls = << ServiceCall("search_person_folder", "people/Nguyen_Thanh_Phong", 50),
                      ServiceCall("copy_matches_to_output", "Nguyen Thanh Phong", NoInt) >>

\* C30: copy_matches_to_output is called at most once and only after
\* search_person_folder returned a result with a match; when the folder was
\* rejected or the result has no match, nothing is copied and the person's
\* directory is not made.
C30_CopyOnlyAfterMatches ==
    /\ Len(CallsOf({"copy_matches_to_output"})) <= 1
    /\ cli_mkdirs = Len(CallsOf({"copy_matches_to_output"}))
    /\ \A i \in 1..Len(cli_calls) :
           cli_calls[i].fn = "copy_matches_to_output" =>
               /\ \E h \in 1..(i - 1) : cli_calls[h].fn = "search_person_folder"
               /\ cli_result # NoResult
               /\ cli_result.matches # <<>>
    /\ (cli_pc \in {"done", "crashed"} /\ cli_result = NoResult) => cli_mkdirs = 0
    /\ (cli_pc = "done" /\ cli_result \in CliResults /\ cli_result.matches = <<>>) =>
           cli_mkdirs = 0

\* a folder without reference images: the result has no match, the command
\* ends after the search and no directory was made
C30_Witness ==
    /\ cli_pc = "done"
    /\ cli_args.kind = "dir"
    /\ cli_result = EmptyResult("Nguyen Thanh Phong")
    /\ Len(cli_calls) = 1
    /\ cli_calls[1].fn = "search_person_folder"
    /\ cli_mkdirs = 0

====
